---- MODULE Spec2Model ----
(***************************************************************************)
(* Object browser of src/layout_editor.py: the persistence codec           *)
(* (save_object_python, load_object_python, save_object_binary,            *)
(* load_object_binary), the named-object store loaded_objects and the      *)
(* selection that feeds the save operations.                               *)
(*                                                                         *)
(* Byte strings are sequences of integers 0..255, text strings are         *)
(* sequences of code points.  The library conversions the handlers call    *)
(* (str.encode / bytes.decode, str(int), json.dumps / json.loads,          *)
(* pickle.dumps / pickle.loads) are modelled on the byte level for the     *)
(* value types that occur in the model, so that a save followed by a load  *)
(* goes through a real encoding and a real parse.                          *)
(***************************************************************************)
EXTENDS Integers, Sequences, FiniteSets, TLC

VARIABLES
    current_object,       \* self.current_object
    current_object_path,  \* self.current_object_path
    loaded_objects,       \* self.loaded_objects: name -> value
    fs,                   \* the file system: path -> file, or NoFile
    last,                 \* the handler that ran last: its locals and its dialog
    settings,             \* self.settings of the browser: see Settings
    tree,                 \* the object tree: the graph it was populated from
    detail,               \* the detail views: the value they show
    settings_file,        \* the text of settings.json, or NoSettingsFile
    walk,                 \* one run of _enumerate_object: input and nodes
    document,             \* SettingsWindow.settings
    editor_command        \* self.editor_command of the browser

vars == <<current_object, current_object_path, loaded_objects, fs, last,
         settings, tree, detail, settings_file, walk, document, editor_command>>

----------------------------------------------------------------------------
(* Python values.  Every value is a record of the same shape:              *)
(*   t: the name of its type, n: its number (bool, int),                   *)
(*   s: its characters or bytes (str, bytes),                              *)
(*   c: its items (list, set; a dict holds key1, value1, key2, value2 ...) *)

V(t, n, s, c) == [t |-> t, n |-> n, s |-> s, c |-> c]

NoneV == V("NoneType", 0, <<>>, <<>>)

BoolV(b) == V("bool", IF b THEN 1 ELSE 0, <<>>, <<>>)

IntV(n) == V("int", n, <<>>, <<>>)

StrV(s) == V("str", 0, s, <<>>)

BytesV(s) == V("bytes", 0, s, <<>>)

ListV(c) == V("list", 0, <<>>, c)

SetV(c) == V("set", 0, <<>>, c)

DictV(c) == V("dict", 0, <<>>, c)

\* A value that carries no data of interest: a widget, a function, ...
Opaque(t) == V(t, 0, <<>>, <<>>)

\* The stack marker of the unpickler (never a Python value).
MarkV == V("<mark>", 0, <<>>, <<>>)

\* bool(value): the truth value `not self.current_object` tests.
Truthy(v) ==
    CASE v.t = "NoneType" -> FALSE
      [] v.t \in {"bool", "int"} -> v.n # 0
      [] v.t = "float" -> v.s \notin {<<48, 46, 48>>, <<45, 48, 46, 48>>}
      [] v.t \in {"str", "bytes"} -> Len(v.s) > 0
      [] v.t \in {"list", "tuple", "set", "dict"} -> Len(v.c) > 0
      [] OTHER -> TRUE

\* The types tk.Widget, ttk.Widget, tk.Tk, tk.Toplevel, tk.Canvas, tk.Frame.
WidgetTypes == {"Frame", "Toplevel", "Canvas", "Tk", "Treeview"}

IsWidget(v) == v.t \in WidgetTypes

\* hasattr(v, '__dict__') and one of vars(v).values() is a widget.
HoldsWidgets(v) == v.t \in {"ObjectBrowser"}

----------------------------------------------------------------------------
(* str.encode('utf-8') and bytes.decode('utf-8').                          *)

IsSurrogate(cp) == cp >= 55296 /\ cp <= 57343

Utf8Char(cp) ==
    IF cp < 128 THEN <<cp>>
    ELSE IF cp < 2048 THEN <<192 + (cp \div 64), 128 + (cp % 64)>>
    ELSE IF cp < 65536
        THEN <<224 + (cp \div 4096), 128 + ((cp \div 64) % 64), 128 + (cp % 64)>>
    ELSE <<240 + (cp \div 262144), 128 + ((cp \div 4096) % 64),
           128 + ((cp \div 64) % 64), 128 + (cp % 64)>>

RECURSIVE Utf8Bytes(_)
Utf8Bytes(s) ==
    IF s = <<>> THEN <<>> ELSE Utf8Char(Head(s)) \o Utf8Bytes(Tail(s))

\* str.encode('utf-8'): a lone surrogate raises UnicodeEncodeError.
Utf8Encode(s) ==
    IF \E i \in 1..Len(s) : IsSurrogate(s[i])
    THEN [ok |-> FALSE, exc |-> "UnicodeEncodeError", data |-> <<>>]
    ELSE [ok |-> TRUE, exc |-> "", data |-> Utf8Bytes(s)]

IsCont(d, i) == i <= Len(d) /\ d[i] >= 128 /\ d[i] <= 191

\* The code point that starts at d[i] and the number of bytes it takes;
\* len = 0 when the bytes at i are no valid UTF-8.  surr: surrogates pass.
Utf8At(d, i, surr) ==
    LET b == d[i] IN
    IF b < 128 THEN [len |-> 1, cp |-> b]
    ELSE IF b >= 194 /\ b <= 223 /\ IsCont(d, i + 1)
        THEN [len |-> 2, cp |-> (b - 192) * 64 + (d[i + 1] - 128)]
    ELSE IF b >= 224 /\ b <= 239 /\ IsCont(d, i + 1) /\ IsCont(d, i + 2)
            /\ (b = 224 => d[i + 1] >= 160)
            /\ (b = 237 /\ ~surr => d[i + 1] <= 159)
        THEN [len |-> 3,
              cp |-> (b - 224) * 4096 + (d[i + 1] - 128) * 64 + (d[i + 2] - 128)]
    ELSE IF b >= 240 /\ b <= 244 /\ IsCont(d, i + 1) /\ IsCont(d, i + 2)
            /\ IsCont(d, i + 3)
            /\ (b = 240 => d[i + 1] >= 144)
            /\ (b = 244 => d[i + 1] <= 143)
        THEN [len |-> 4,
              cp |-> (b - 240) * 262144 + (d[i + 1] - 128) * 4096
                     + (d[i + 2] - 128) * 64 + (d[i + 3] - 128)]
    ELSE [len |-> 0, cp |-> 0]

RECURSIVE Utf8From(_, _, _, _)
Utf8From(d, i, surr, acc) ==
    IF i > Len(d) THEN [ok |-> TRUE, exc |-> "", s |-> acc]
    ELSE LET u == Utf8At(d, i, surr) IN
         IF u.len = 0 THEN [ok |-> FALSE, exc |-> "UnicodeDecodeError", s |-> <<>>]
         ELSE Utf8From(d, i + u.len, surr, Append(acc, u.cp))

\* bytes.decode('utf-8')
Utf8Decode(d) == Utf8From(d, 1, FALSE, <<>>)

----------------------------------------------------------------------------
(* str(number)                                                             *)

RECURSIVE Digits(_)
Digits(n) == IF n < 10 THEN <<48 + n>> ELSE Append(Digits(n \div 10), 48 + (n % 10))

\* str(v) of an int or a bool, as code points.
NumberStr(v) ==
    IF v.t = "bool" THEN (IF v.n = 1 THEN <<84, 114, 117, 101>>       \* True
                          ELSE <<70, 97, 108, 115, 101>>)              \* False
    ELSE IF v.n < 0 THEN <<45>> \o Digits(0 - v.n)
    ELSE Digits(v.n)

----------------------------------------------------------------------------
(* pickle.dumps(obj, protocol): the opcode stream of protocols 4 and 5     *)
(* for the value types of the model, framed and memoized as the C pickler  *)
(* does it.  Integers are within 32 bits and strings and byte strings      *)
(* shorter than 256 bytes (the short opcodes).                             *)

\* pickle.HIGHEST_PROTOCOL, which save_object_python asks for.
HIGHEST_PROTOCOL == 5

\* pickle.DEFAULT_PROTOCOL, which pickle.dumps(obj) of save_object_binary uses.
DEFAULT_PROTOCOL == 4

\* The exception pickle.dumps raises for a value of a type it cannot
\* serialize, "" for the types it can.
PickleTypeExc(t) ==
    CASE t \in WidgetTypes -> "TypeError"          \* cannot pickle '_tkinter.tkapp'
      [] t = "ObjectBrowser" -> "TypeError"        \* holds widgets
      [] t = "StringVar" -> "TypeError"            \* holds the tkapp handle
      [] t = "function" -> "PicklingError"         \* a lambda
      [] t = "LocalObject" -> "AttributeError"     \* instance of a local class
      [] t = "BadReduce" -> "RuntimeError"         \* its __reduce__ raises
      [] OTHER -> ""

RECURSIVE PickleExc(_)
RECURSIVE PickleExcSeq(_)
\* The exception pickling v raises: that of the first part that raises.
PickleExc(v) ==
    IF PickleTypeExc(v.t) # "" THEN PickleTypeExc(v.t) ELSE PickleExcSeq(v.c)

PickleExcSeq(c) ==
    IF c = <<>> THEN ""
    ELSE IF PickleExc(Head(c)) # "" THEN PickleExc(Head(c))
    ELSE PickleExcSeq(Tail(c))

\* n as k little-endian bytes (two's complement for n < 0).
RECURSIVE LittleEndian(_, _)
LittleEndian(n, k) ==
    IF k = 0 THEN <<>> ELSE <<n % 256>> \o LittleEndian(n \div 256, k - 1)

RECURSIVE PickleSave(_)
RECURSIVE PickleSaveAll(_)
\* The opcodes that build v on the unpickler's stack.
PickleSave(v) ==
    CASE v.t = "NoneType" -> <<78>>                                 \* NONE
      [] v.t = "bool" -> IF v.n = 1 THEN <<136>> ELSE <<137>>       \* NEWTRUE, NEWFALSE
      [] v.t = "int" ->
            IF v.n >= 0 /\ v.n < 256 THEN <<75, v.n>>               \* BININT1
            ELSE IF v.n >= 0 /\ v.n < 65536
                THEN <<77>> \o LittleEndian(v.n, 2)                 \* BININT2
            ELSE <<74>> \o LittleEndian(v.n, 4)                     \* BININT
      [] v.t = "str" ->                                             \* SHORT_BINUNICODE
            LET u == Utf8Bytes(v.s) IN <<140, Len(u)>> \o u \o <<148>>
      [] v.t = "bytes" -> <<67, Len(v.s)>> \o v.s \o <<148>>        \* SHORT_BINBYTES
      [] v.t = "list" ->                                            \* EMPTY_LIST
            <<93, 148>> \o
            (IF Len(v.c) = 0 THEN <<>>
             ELSE IF Len(v.c) = 1 THEN PickleSave(v.c[1]) \o <<97>>      \* APPEND
             ELSE <<40>> \o PickleSaveAll(v.c) \o <<101>>)          \* MARK .. APPENDS
      [] v.t = "set" ->                                             \* EMPTY_SET
            <<143, 148>> \o
            (IF Len(v.c) = 0 THEN <<>>
             ELSE <<40>> \o PickleSaveAll(v.c) \o <<144>>)          \* MARK .. ADDITEMS
      [] v.t = "dict" ->                                            \* EMPTY_DICT
            <<125, 148>> \o
            (IF Len(v.c) = 0 THEN <<>>
             ELSE IF Len(v.c) = 2 THEN PickleSaveAll(v.c) \o <<115>>     \* SETITEM
             ELSE <<40>> \o PickleSaveAll(v.c) \o <<117>>)          \* MARK .. SETITEMS
      [] v.t = "builtin_function_or_method" ->                      \* STACK_GLOBAL
            <<140, 5, 112, 111, 115, 105, 120, 148>>                \* 'posix'
            \o <<140, Len(v.s)>> \o v.s \o <<148, 147, 148>>
      [] OTHER -> <<>>

PickleSaveAll(c) ==
    IF c = <<>> THEN <<>> ELSE PickleSave(Head(c)) \o PickleSaveAll(Tail(c))

\* pickle.dumps(v, protocol=proto): PROTO, a FRAME when the body has at
\* least four bytes, the body, STOP.
PickleDumps(v, proto) ==
    IF PickleExc(v) # "" THEN [ok |-> FALSE, exc |-> PickleExc(v), data |-> <<>>]
    ELSE LET body == PickleSave(v) \o <<46>> IN
         [ok |-> TRUE, exc |-> "",
          data |-> <<128, proto>>
                   \o (IF Len(body) >= 4 THEN <<149>> \o LittleEndian(Len(body), 8)
                       ELSE <<>>)
                   \o body]

----------------------------------------------------------------------------
(* pickle.loads(data): the unpickler's stack machine over the opcodes      *)
(* PickleSave emits, and GLOBAL.  Any other opcode is an invalid load key. *)

PickleErr(e) == [ok |-> FALSE, exc |-> e, v |-> NoneV]

\* The modules pickle can import, and the attributes it finds in them.
ImportableModules == {<<111, 115>>, <<112, 111, 115, 105, 120>>}   \* os, posix

ModuleAttributes == {<<103, 101, 116, 99, 119, 100>>}              \* getcwd

\* find_class(module, name)
FindClass(module, name, ifFound) ==
    IF module \notin ImportableModules THEN PickleErr("ModuleNotFoundError")
    ELSE IF name \notin ModuleAttributes THEN PickleErr("AttributeError")
    ELSE ifFound

Hashable(v) == v.t \notin {"list", "set", "dict"}

\* The index of the topmost MARK of the stack, 0 when there is none.
RECURSIVE TopMark(_)
TopMark(st) ==
    IF st = <<>> THEN 0
    ELSE IF st[Len(st)] = MarkV THEN Len(st)
    ELSE TopMark(SubSeq(st, 1, Len(st) - 1))

\* The number of objects above the topmost MARK.
Above(st) == Len(st) - TopMark(st)

\* The end of the line that starts at d[i]: the index of its newline, 0 when
\* the data ends first.
RECURSIVE LineEnd(_, _)
LineEnd(d, i) ==
    IF i > Len(d) THEN 0 ELSE IF d[i] = 10 THEN i ELSE LineEnd(d, i + 1)

\* set.add in the iteration order of a set of small integers.
RECURSIVE SetAdd(_, _)
SetAdd(c, x) ==
    IF c = <<>> THEN <<x>>
    ELSE IF Head(c) = x THEN c
    ELSE IF Head(c).t = "int" /\ x.t = "int" /\ x.n < Head(c).n THEN <<x>> \o c
    ELSE <<Head(c)>> \o SetAdd(Tail(c), x)

RECURSIVE SetAddAll(_, _)
SetAddAll(c, xs) ==
    IF xs = <<>> THEN c ELSE SetAddAll(SetAdd(c, Head(xs)), Tail(xs))

\* dict[k] = x on the flattened key/value sequence.
RECURSIVE DictSet(_, _, _)
DictSet(c, k, x) ==
    IF c = <<>> THEN <<k, x>>
    ELSE IF c[1] = k THEN <<k, x>> \o SubSeq(c, 3, Len(c))
    ELSE <<c[1], c[2]>> \o DictSet(SubSeq(c, 3, Len(c)), k, x)

RECURSIVE DictSetAll(_, _)
DictSetAll(c, kvs) ==
    IF kvs = <<>> THEN c
    ELSE DictSetAll(DictSet(c, kvs[1], kvs[2]), SubSeq(kvs, 3, Len(kvs)))

AllKeysHashable(kvs) == \A k \in 1..Len(kvs) : k % 2 = 1 => Hashable(kvs[k])

\* The stack with its top n entries replaced by x.
Replace(st, n, x) == Append(SubSeq(st, 1, Len(st) - n), x)

RECURSIVE Unpickle(_, _, _)
Unpickle(d, i, st) ==
    IF i > Len(d) THEN PickleErr("EOFError")                 \* Ran out of input
    ELSE
    LET op == d[i]
        has(n) == i + n <= Len(d)                            \* n argument bytes
        trunc == PickleErr("UnpicklingError")                \* data was truncated
        under == PickleErr("UnpicklingError")                \* stack underflow
        m == TopMark(st)
        items == SubSeq(st, m + 1, Len(st))
    IN
    CASE op = 128 ->                                                  \* PROTO
            IF ~has(1) THEN trunc
            ELSE IF d[i + 1] > HIGHEST_PROTOCOL THEN PickleErr("ValueError")
            ELSE Unpickle(d, i + 2, st)
      [] op = 149 ->                                                  \* FRAME
            IF ~has(8) THEN trunc
            ELSE IF d[i + 4] >= 128 \/ (\E k \in 5..8 : d[i + k] # 0) THEN trunc
            ELSE IF d[i + 1] + 256 * d[i + 2] + 65536 * d[i + 3]
                    + 16777216 * d[i + 4] > Len(d) - (i + 8) THEN trunc
            ELSE Unpickle(d, i + 9, st)
      [] op = 148 ->                                                  \* MEMOIZE
            IF Above(st) < 1 THEN under ELSE Unpickle(d, i + 1, st)
      [] op = 78 -> Unpickle(d, i + 1, Append(st, NoneV))             \* NONE
      [] op = 136 -> Unpickle(d, i + 1, Append(st, BoolV(TRUE)))      \* NEWTRUE
      [] op = 137 -> Unpickle(d, i + 1, Append(st, BoolV(FALSE)))     \* NEWFALSE
      [] op = 75 ->                                                   \* BININT1
            IF ~has(1) THEN trunc
            ELSE Unpickle(d, i + 2, Append(st, IntV(d[i + 1])))
      [] op = 77 ->                                                   \* BININT2
            IF ~has(2) THEN trunc
            ELSE Unpickle(d, i + 3, Append(st, IntV(d[i + 1] + 256 * d[i + 2])))
      [] op = 74 ->                                                   \* BININT
            IF ~has(4) THEN trunc
            ELSE Unpickle(d, i + 5, Append(st,
                    IntV(d[i + 1] + 256 * d[i + 2] + 65536 * d[i + 3] + 16777216 *
                         (IF d[i + 4] >= 128 THEN d[i + 4] - 256 ELSE d[i + 4]))))
      [] op = 140 ->                                                  \* SHORT_BINUNICODE
            IF ~has(1) THEN trunc
            ELSE IF ~has(1 + d[i + 1]) THEN trunc
            ELSE LET u == Utf8From(SubSeq(d, i + 2, i + 1 + d[i + 1]), 1, TRUE, <<>>)
                 IN IF ~u.ok THEN PickleErr("UnicodeDecodeError")
                    ELSE Unpickle(d, i + 2 + d[i + 1], Append(st, StrV(u.s)))
      [] op = 67 ->                                                   \* SHORT_BINBYTES
            IF ~has(1) THEN trunc
            ELSE IF ~has(1 + d[i + 1]) THEN trunc
            ELSE Unpickle(d, i + 2 + d[i + 1],
                          Append(st, BytesV(SubSeq(d, i + 2, i + 1 + d[i + 1]))))
      [] op = 93 -> Unpickle(d, i + 1, Append(st, ListV(<<>>)))       \* EMPTY_LIST
      [] op = 143 -> Unpickle(d, i + 1, Append(st, SetV(<<>>)))       \* EMPTY_SET
      [] op = 125 -> Unpickle(d, i + 1, Append(st, DictV(<<>>)))      \* EMPTY_DICT
      [] op = 40 -> Unpickle(d, i + 1, Append(st, MarkV))             \* MARK
      [] op = 97 ->                                                   \* APPEND
            IF Above(st) < 2 THEN under
            ELSE IF st[Len(st) - 1].t # "list" THEN PickleErr("AttributeError")
            ELSE Unpickle(d, i + 1, Replace(st, 2,
                    ListV(Append(st[Len(st) - 1].c, st[Len(st)]))))
      [] op = 101 ->                                                  \* APPENDS
            IF m = 0 THEN PickleErr("UnpicklingError")       \* could not find MARK
            ELSE IF m = 1 \/ st[m - 1] = MarkV THEN under
            ELSE IF items = <<>> THEN Unpickle(d, i + 1, SubSeq(st, 1, m - 1))
            ELSE IF st[m - 1].t # "list" THEN PickleErr("AttributeError")
            ELSE Unpickle(d, i + 1, Replace(SubSeq(st, 1, m - 1), 1,
                    ListV(st[m - 1].c \o items)))
      [] op = 144 ->                                                  \* ADDITEMS
            IF m = 0 THEN PickleErr("UnpicklingError")
            ELSE IF m = 1 \/ st[m - 1] = MarkV THEN under
            ELSE IF items = <<>> THEN Unpickle(d, i + 1, SubSeq(st, 1, m - 1))
            ELSE IF st[m - 1].t # "set" THEN PickleErr("AttributeError")
            ELSE IF \E k \in 1..Len(items) : ~Hashable(items[k])
                THEN PickleErr("TypeError")
            ELSE Unpickle(d, i + 1, Replace(SubSeq(st, 1, m - 1), 1,
                    SetV(SetAddAll(st[m - 1].c, items))))
      [] op = 115 ->                                                  \* SETITEM
            IF Above(st) < 3 THEN under
            ELSE IF st[Len(st) - 2].t # "dict" THEN PickleErr("TypeError")
            ELSE IF ~Hashable(st[Len(st) - 1]) THEN PickleErr("TypeError")
            ELSE Unpickle(d, i + 1, Replace(st, 3,
                    DictV(DictSet(st[Len(st) - 2].c, st[Len(st) - 1], st[Len(st)]))))
      [] op = 117 ->                                                  \* SETITEMS
            IF m = 0 THEN PickleErr("UnpicklingError")
            ELSE IF m = 1 \/ st[m - 1] = MarkV THEN under
            ELSE IF Len(items) % 2 = 1 THEN PickleErr("UnpicklingError")
            ELSE IF items = <<>> THEN Unpickle(d, i + 1, SubSeq(st, 1, m - 1))
            ELSE IF st[m - 1].t # "dict" THEN PickleErr("TypeError")
            ELSE IF ~AllKeysHashable(items) THEN PickleErr("TypeError")
            ELSE Unpickle(d, i + 1, Replace(SubSeq(st, 1, m - 1), 1,
                    DictV(DictSetAll(st[m - 1].c, items))))
      [] op = 99 ->                                                   \* GLOBAL
            LET e1 == LineEnd(d, i + 1)
                e2 == IF e1 = 0 THEN 0 ELSE LineEnd(d, e1 + 1)
            IN IF e2 = 0 THEN trunc
               ELSE LET name == SubSeq(d, e1 + 1, e2 - 1) IN
                    FindClass(SubSeq(d, i + 1, e1 - 1), name,
                        Unpickle(d, e2 + 1, Append(st,
                            V("builtin_function_or_method", 0, name, <<>>))))
      [] op = 147 ->                                                  \* STACK_GLOBAL
            IF Above(st) < 2 THEN under
            ELSE IF st[Len(st) - 1].t # "str" \/ st[Len(st)].t # "str"
                THEN PickleErr("UnpicklingError")            \* requires str
            ELSE FindClass(st[Len(st) - 1].s, st[Len(st)].s,
                    Unpickle(d, i + 1, Replace(st, 2,
                        V("builtin_function_or_method", 0, st[Len(st)].s, <<>>))))
      [] op = 46 ->                                                   \* STOP
            IF Above(st) < 1 THEN under ELSE [ok |-> TRUE, exc |-> "", v |-> st[Len(st)]]
      [] OTHER -> PickleErr("UnpicklingError")               \* invalid load key

\* pickle.loads(data); pickle.load(f) is pickle.loads of the file's bytes.
PickleLoads(d) == Unpickle(d, 1, <<>>)

----------------------------------------------------------------------------
(* json.dumps(obj, indent=2) and json.loads(text), on code points.  A      *)
(* float is held as the text of its literal (no value of the model's       *)
(* inputs is a float).                                                     *)

HexDigit(n) == IF n < 10 THEN 48 + n ELSE 87 + n

\* \uXXXX
JsonUEscape(cp) ==
    <<92, 117, HexDigit(cp \div 4096), HexDigit((cp \div 256) % 16),
      HexDigit((cp \div 16) % 16), HexDigit(cp % 16)>>

\* One character of a JSON string, ensure_ascii=True.
JsonChar(cp) ==
    CASE cp = 34 -> <<92, 34>>
      [] cp = 92 -> <<92, 92>>
      [] cp = 10 -> <<92, 110>>
      [] cp = 13 -> <<92, 114>>
      [] cp = 9 -> <<92, 116>>
      [] cp = 8 -> <<92, 98>>
      [] cp = 12 -> <<92, 102>>
      [] cp >= 65536 -> JsonUEscape(55296 + ((cp - 65536) \div 1024))
                        \o JsonUEscape(56320 + ((cp - 65536) % 1024))
      [] cp < 32 \/ cp >= 127 -> JsonUEscape(cp)
      [] OTHER -> <<cp>>

RECURSIVE JsonChars(_)
JsonChars(s) == IF s = <<>> THEN <<>> ELSE JsonChar(Head(s)) \o JsonChars(Tail(s))

JsonString(s) == <<34>> \o JsonChars(s) \o <<34>>

RECURSIVE Spaces(_)
Spaces(n) == IF n = 0 THEN <<>> ELSE <<32>> \o Spaces(n - 1)

\* The types json can encode as a value, and as a key of an object.
JsonValueTypes == {"NoneType", "bool", "int", "float", "str", "list", "tuple", "dict"}

JsonKeyTypes == {"NoneType", "bool", "int", "float", "str"}

RECURSIVE JsonOk(_)
\* Whether json.dumps can encode v (it raises TypeError otherwise).
JsonOk(v) ==
    /\ v.t \in JsonValueTypes
    /\ \A k \in 1..Len(v.c) :
          /\ JsonOk(v.c[k])
          /\ (v.t = "dict" /\ k % 2 = 1 => v.c[k].t \in JsonKeyTypes)

\* A scalar as JSON text.
JsonScalar(v) ==
    CASE v.t = "NoneType" -> <<110, 117, 108, 108>>                        \* null
      [] v.t = "bool" -> IF v.n = 1 THEN <<116, 114, 117, 101>>            \* true
                         ELSE <<102, 97, 108, 115, 101>>                   \* false
      [] v.t = "int" -> IF v.n < 0 THEN <<45>> \o Digits(0 - v.n) ELSE Digits(v.n)
      [] v.t = "float" -> v.s
      [] OTHER -> JsonString(v.s)

\* A key of an object: a str as it is, another scalar as its JSON text.
JsonKey(k) == IF k.t = "str" THEN JsonString(k.s) ELSE JsonString(JsonScalar(k))

RECURSIVE JsonText(_, _)
RECURSIVE JsonItems(_, _, _, _)
\* v at nesting level lvl, with the indent of two spaces per level.
JsonText(v, lvl) ==
    IF v.t \in {"list", "tuple"}
    THEN IF v.c = <<>> THEN <<91, 93>>
         ELSE <<91, 10>> \o JsonItems(v.c, lvl + 1, FALSE, TRUE)
              \o <<10>> \o Spaces(2 * lvl) \o <<93>>
    ELSE IF v.t = "dict"
    THEN IF v.c = <<>> THEN <<123, 125>>
         ELSE <<123, 10>> \o JsonItems(v.c, lvl + 1, TRUE, TRUE)
              \o <<10>> \o Spaces(2 * lvl) \o <<125>>
    ELSE JsonScalar(v)

\* The items of a container, one per line, separated by ",\n".
JsonItems(c, lvl, isDict, first) ==
    IF c = <<>> THEN <<>>
    ELSE (IF first THEN <<>> ELSE <<44, 10>>) \o Spaces(2 * lvl) \o
         (IF isDict
          THEN JsonKey(c[1]) \o <<58, 32>> \o JsonText(c[2], lvl)
               \o JsonItems(SubSeq(c, 3, Len(c)), lvl, TRUE, FALSE)
          ELSE JsonText(c[1], lvl) \o JsonItems(Tail(c), lvl, FALSE, FALSE))

\* json.dumps(v, indent=2)
JsonDumps(v) ==
    IF JsonOk(v) THEN [ok |-> TRUE, exc |-> "", s |-> JsonText(v, 0)]
    ELSE [ok |-> FALSE, exc |-> "TypeError", s |-> <<>>]

JsonErr == [ok |-> FALSE, v |-> NoneV, i |-> 0]

JsonGot(v, i) == [ok |-> TRUE, v |-> v, i |-> i]

IsDigit(s, i) == i <= Len(s) /\ s[i] >= 48 /\ s[i] <= 57

IsHex(s, i) ==
    i <= Len(s) /\ (\/ s[i] >= 48 /\ s[i] <= 57
                    \/ s[i] >= 97 /\ s[i] <= 102
                    \/ s[i] >= 65 /\ s[i] <= 70)

HexValue(ch) == IF ch <= 57 THEN ch - 48 ELSE IF ch >= 97 THEN ch - 87 ELSE ch - 55

\* s[i..] starts with the word w.
StartsWith(s, i, w) == i + Len(w) - 1 <= Len(s) /\ SubSeq(s, i, i + Len(w) - 1) = w

RECURSIVE SkipWs(_, _)
SkipWs(s, i) ==
    IF i <= Len(s) /\ s[i] \in {32, 9, 10, 13} THEN SkipWs(s, i + 1) ELSE i

RECURSIVE SkipDigits(_, _)
SkipDigits(s, i) == IF IsDigit(s, i) THEN SkipDigits(s, i + 1) ELSE i

RECURSIVE DigitsValue(_, _, _)
DigitsValue(s, i, j) ==
    IF j < i THEN 0 ELSE 10 * DigitsValue(s, i, j - 1) + (s[j] - 48)

\* The four hex digits at s[i..i+3], -1 when they are not there.
Hex4(s, i) ==
    IF IsHex(s, i) /\ IsHex(s, i + 1) /\ IsHex(s, i + 2) /\ IsHex(s, i + 3)
    THEN 4096 * HexValue(s[i]) + 256 * HexValue(s[i + 1])
         + 16 * HexValue(s[i + 2]) + HexValue(s[i + 3])
    ELSE -1

\* The character a one-letter escape stands for, -1 when it is none.
JsonUnescape(ch) ==
    CASE ch = 34 -> 34 [] ch = 92 -> 92 [] ch = 47 -> 47 [] ch = 98 -> 8
      [] ch = 102 -> 12 [] ch = 110 -> 10 [] ch = 114 -> 13 [] ch = 116 -> 9
      [] OTHER -> -1

RECURSIVE JsonScanString(_, _, _)
\* The string whose opening quote precedes s[i].
JsonScanString(s, i, acc) ==
    IF i > Len(s) THEN JsonErr                                  \* unterminated
    ELSE IF s[i] = 34 THEN JsonGot(StrV(acc), i + 1)
    ELSE IF s[i] < 32 THEN JsonErr                              \* control character
    ELSE IF s[i] # 92 THEN JsonScanString(s, i + 1, Append(acc, s[i]))
    ELSE IF i + 1 > Len(s) THEN JsonErr
    ELSE IF s[i + 1] # 117
        THEN IF JsonUnescape(s[i + 1]) < 0 THEN JsonErr
             ELSE JsonScanString(s, i + 2, Append(acc, JsonUnescape(s[i + 1])))
    ELSE LET u == Hex4(s, i + 2)
             lo == IF StartsWith(s, i + 6, <<92, 117>>) THEN Hex4(s, i + 8) ELSE -1
         IN IF u < 0 THEN JsonErr
            ELSE IF u >= 55296 /\ u <= 56319 /\ lo >= 56320 /\ lo <= 57343
                THEN JsonScanString(s, i + 12,
                        Append(acc, 65536 + (u - 55296) * 1024 + (lo - 56320)))
            ELSE JsonScanString(s, i + 6, Append(acc, u))

\* The number that starts at s[i] (s[i] is a digit or '-').
JsonScanNumber(s, i) ==
    LET d == IF s[i] = 45 THEN i + 1 ELSE i
        e == IF IsDigit(s, d) /\ s[d] = 48 THEN d + 1 ELSE SkipDigits(s, d)
        f == IF e <= Len(s) /\ s[e] = 46 /\ IsDigit(s, e + 1)
             THEN SkipDigits(s, e + 1) ELSE e
        x == IF f <= Len(s) /\ s[f] \in {101, 69}
             THEN (IF f + 1 <= Len(s) /\ s[f + 1] \in {43, 45}
                   THEN f + 2 ELSE f + 1)
             ELSE 0
        g == IF x # 0 /\ IsDigit(s, x) THEN SkipDigits(s, x) ELSE f
    IN IF ~IsDigit(s, d) THEN JsonErr
       ELSE IF g = e
           THEN JsonGot(IntV((IF d > i THEN -1 ELSE 1) * DigitsValue(s, d, e - 1)), e)
       ELSE JsonGot(V("float", 0, SubSeq(s, i, g - 1), <<>>), g)

RECURSIVE JsonValue(_, _)
RECURSIVE JsonArray(_, _, _)
RECURSIVE JsonObject(_, _, _)
\* The value that starts at s[i].
JsonValue(s, i) ==
    IF i > Len(s) THEN JsonErr
    ELSE IF s[i] = 34 THEN JsonScanString(s, i + 1, <<>>)
    ELSE IF s[i] = 91
        THEN LET j == SkipWs(s, i + 1) IN
             IF j <= Len(s) /\ s[j] = 93 THEN JsonGot(ListV(<<>>), j + 1)
             ELSE JsonArray(s, j, <<>>)
    ELSE IF s[i] = 123
        THEN LET j == SkipWs(s, i + 1) IN
             IF j <= Len(s) /\ s[j] = 125 THEN JsonGot(DictV(<<>>), j + 1)
             ELSE JsonObject(s, j, <<>>)
    ELSE IF StartsWith(s, i, <<110, 117, 108, 108>>) THEN JsonGot(NoneV, i + 4)
    ELSE IF StartsWith(s, i, <<116, 114, 117, 101>>) THEN JsonGot(BoolV(TRUE), i + 4)
    ELSE IF StartsWith(s, i, <<102, 97, 108, 115, 101>>)
        THEN JsonGot(BoolV(FALSE), i + 5)
    ELSE IF StartsWith(s, i, <<78, 97, 78>>)                              \* NaN
        THEN JsonGot(V("float", 0, <<110, 97, 110>>, <<>>), i + 3)
    ELSE IF StartsWith(s, i, <<73, 110, 102, 105, 110, 105, 116, 121>>)   \* Infinity
        THEN JsonGot(V("float", 0, <<105, 110, 102>>, <<>>), i + 8)
    ELSE IF StartsWith(s, i, <<45, 73, 110, 102, 105, 110, 105, 116, 121>>)
        THEN JsonGot(V("float", 0, <<45, 105, 110, 102>>, <<>>), i + 9)
    ELSE IF IsDigit(s, i) \/ s[i] = 45 THEN JsonScanNumber(s, i)
    ELSE JsonErr

\* The items of an array from s[i] on; acc holds the items read so far.
JsonArray(s, i, acc) ==
    LET x == JsonValue(s, i)
        j == SkipWs(s, x.i)
    IN IF ~x.ok \/ j > Len(s) THEN JsonErr
       ELSE IF s[j] = 93 THEN JsonGot(ListV(Append(acc, x.v)), j + 1)
       ELSE IF s[j] = 44 THEN JsonArray(s, SkipWs(s, j + 1), Append(acc, x.v))
       ELSE JsonErr

\* The members of an object from s[i] on; acc holds the members read so far.
JsonObject(s, i, acc) ==
    IF i > Len(s) \/ s[i] # 34 THEN JsonErr
    ELSE LET k == JsonScanString(s, i + 1, <<>>)
             c == IF k.ok THEN SkipWs(s, k.i) ELSE 0
             x == IF k.ok /\ c <= Len(s) /\ s[c] = 58
                  THEN JsonValue(s, SkipWs(s, c + 1)) ELSE JsonErr
             j == SkipWs(s, x.i)
         IN IF ~x.ok \/ j > Len(s) THEN JsonErr
            ELSE IF s[j] = 125 THEN JsonGot(DictV(DictSet(acc, k.v, x.v)), j + 1)
            ELSE IF s[j] = 44
                THEN JsonObject(s, SkipWs(s, j + 1), DictSet(acc, k.v, x.v))
            ELSE JsonErr

\* json.loads(text): one value between optional white space, and no more.
JsonLoads(s) ==
    LET x == JsonValue(s, SkipWs(s, 1)) IN
    IF x.ok /\ SkipWs(s, x.i) > Len(s) THEN [ok |-> TRUE, exc |-> "", v |-> x.v]
    ELSE [ok |-> FALSE, exc |-> "JSONDecodeError", v |-> NoneV]

----------------------------------------------------------------------------
(* The inputs of the model: the values under the inspected root, the files *)
(* the user can pick, the names the user can type.                         *)

\* Path expressions: "self", then attribute and key steps.
RootStep == [k |-> "root", name |-> "self", idx |-> 0]

AttrStep(name) == [k |-> "attr", name |-> name, idx |-> 0]

KeyStep(name) == [k |-> "key", name |-> name, idx |-> 0]

\* The path f"self.loaded_objects['{name}']" of a loaded object's node.
LoadedPath(name) == <<RootStep, AttrStep("loaded_objects"), KeyStep(name)>>

\* The entries of the settings mapping handed to the constructor, in the
\* order of the mapping: the key, its code points, the value ('text' is
\* 'ab'; 'mixed' has no JSON form but pickles; 'hooks' has neither).
HostEntries ==
    <<
       <<"text", <<116, 101, 120, 116>>,
         StrV(<<97, 98>>)>>,
       <<"num", <<110, 117, 109>>,
         IntV(5)>>,
       <<"raw", <<114, 97, 119>>,
         BytesV(<<255, 254>>)>>,
       <<"list", <<108, 105, 115, 116>>,
         ListV(<<IntV(1), IntV(2)>>)>>,
       <<"mixed", <<109, 105, 120, 101, 100>>,
         ListV(<<BytesV(<<255>>)>>)>>,
       <<"hooks", <<104, 111, 111, 107, 115>>,
         ListV(<<Opaque("function")>>)>>,
       <<"tags", <<116, 97, 103, 115>>,
         SetV(<<IntV(1)>>)>>,
       <<"callback", <<99, 97, 108, 108, 98, 97, 99, 107>>,
         Opaque("function")>>,
       <<"local", <<108, 111, 99, 97, 108>>,
         Opaque("LocalObject")>>,
       <<"odd", <<111, 100, 100>>,
         Opaque("BadReduce")>>,
       <<"nothing", <<110, 111, 116, 104, 105, 110, 103>>,
         NoneV>>
    >>

\* The configured large-file threshold of the host settings, in megabytes.
HostLargeFileWarningMb == 200

\* settings['advanced'] of the host settings.
HostAdvanced ==
    DictV(<<StrV(<<101, 100, 105, 116, 111, 114, 95, 99, 111, 109, 109, 97, 110, 100>>),          \* 'editor_command'
            StrV(<<110, 111, 116, 101, 112, 97, 100, 32, 123, 102, 105, 108, 101, 110, 97, 109, 101, 125>>),
            StrV(<<108, 97, 114, 103, 101, 95, 102, 105, 108, 101, 95, 119, 97, 114, 110, 105, 110, 103, 95, 109, 98>>),   \* 'large_file_warning_mb'
            IntV(HostLargeFileWarningMb)>>)

\* The items of a mapping whose entries are <<name, key text, value>>.
RECURSIVE EntryItems(_, _)
EntryItems(entries, i) ==
    IF i > Len(entries) THEN <<>>
    ELSE <<StrV(entries[i][2]), entries[i][3]>> \o EntryItems(entries, i + 1)

\* The settings mapping handed to the constructor.
HostSettings ==
    DictV(<<StrV(<<97, 100, 118, 97, 110, 99, 101, 100>>), HostAdvanced>>    \* 'advanced'
          \o EntryItems(HostEntries, 1))

\* The values reachable from the inspected root `self` that the model lets
\* the user select: the browser itself, its window, and the entries of the
\* settings mapping handed to the constructor.
HostObjects ==
    [p : {<<RootStep>>}, v : {Opaque("ObjectBrowser")}]
    \cup [p : {<<RootStep, AttrStep("window")>>}, v : {Opaque("Toplevel")}]
    \cup { [p |-> <<RootStep, AttrStep("settings"), KeyStep(HostEntries[i][1])>>,
            v |-> HostEntries[i][3]] : i \in DOMAIN HostEntries }

\* The paths the file dialogs can return.
Files == {"object.bin"}

\* A path with no file behind it.
NoFile == [data |-> <<>>, pad |-> -1]

\* A file: its first bytes, and the number of bytes that follow them.  The
\* bytes that follow are the trailing bytes of a file that starts with a
\* complete pickle: no decoder of the model reads them.
File(data, pad) == [data |-> data, pad |-> pad]

\* The size above which both load operations ask before they read.
LargeFileBytes == 100 * 1024 * 1024

\* os.path.getsize
FileSize(f) == Len(f.data) + f.pad

\* The files present before the browser starts.
SampleFiles ==
    { File(d, 0) :
        d \in { <<>>,                                      \* an empty file
                <<128, 4, 78, 46>>,                        \* pickle of None
                <<110, 117, 108, 108>>,                    \* 'null'
                <<128, 4, 75>>,                            \* truncated pickle
                <<128, 4, 78>>,                            \* pickle without STOP
                <<128, 9, 78, 46>>,                        \* unsupported protocol
                <<99, 120, 120, 10, 121, 10, 46>>,         \* global of no module
                <<99, 111, 115, 10, 122, 122, 10, 46>> } } \* os.zz: no attribute
    \cup { File(<<128, 4, 75, 7, 46>>, LargeFileBytes) }   \* pickle of 7, and more

\* The names the user can give a loaded object.
Names == {"a"}

\* What ask_object_name returns: None (cancelled), or the entry's text.
Cancelled == "<None>"

NameAnswers == {Cancelled, ""} \cup Names

----------------------------------------------------------------------------
(* What a handler leaves behind: the title of the message box it ended     *)
(* with (dialog, "" when it returned without one), the questions it asked  *)
(* before, the file and the name the user chose, how its file access ended *)
(* (io), the steps it took on the file, and its locals.                    *)

\* A yes/no question the handler asked (the title of its box), and the answer.
Asked(q, a) == [q |-> q, a |-> a]

Blank ==
    [op |-> "", dialog |-> "", asked |-> <<>>, file |-> "", io |-> "", name |-> "",
     steps |-> <<>>, method |-> "", interpretation |-> "",
     attempts |-> <<>>, shown |-> <<>>, obj |-> NoneV]

\* How a write to the chosen file can end: open() raises IOError (the file
\* is left as it was), write() raises IOError (open has truncated the file),
\* or both succeed.
IoOutcomes == {"ok", "open_fails", "write_fails"}

\* A variant of WriteFile that loses the last byte.
WriteFile_Short(files, file, data, io) ==
    IF io = "open_fails" THEN files
    ELSE [files EXCEPT
            ![file] = File(IF io = "ok" /\ data # <<>>
                           THEN SubSeq(data, 1, Len(data) - 1) ELSE <<>>, 0)]

\* with open(filename, 'wb') as f: f.write(data)
WriteFile(files, file, data, io) ==
    IF io = "open_fails" THEN files
    ELSE [files EXCEPT ![file] = File(IF io = "ok" THEN data ELSE <<>>, 0)]

\* The message box of the except clause that catches a write's IOError.
WriteDialog(io, saved) == IF io = "ok" THEN saved ELSE "File Write Error"

\* A variant of SavePython that opens the file before it serializes.
SavePython_OpensFirst(obj, files, file, cont, io) ==
    LET test_data == PickleDumps(obj, HIGHEST_PROTOCOL)
        base == [Blank EXCEPT !.op = "save_python", !.obj = obj]
    IN
    IF ~Truthy(obj) \/ IsWidget(obj) \/ file = ""
        THEN [rep |-> base, fs |-> files]
    ELSE IF ~test_data.ok
        THEN [rep |-> [base EXCEPT !.file = file, !.steps = <<"open", "dumps">>,
                                   !.dialog = "Object Cannot Be Pickled"],
              fs |-> WriteFile(files, file, <<>>, "ok")]
    ELSE [rep |-> [base EXCEPT !.file = file, !.io = io,
                               !.steps = <<"open", "dumps", "write">>,
                               !.method = "pickle",
                               !.dialog = WriteDialog(io, "Object Saved Successfully")],
          fs |-> WriteFile(files, file, test_data.data, io)]

\* save_object_python.  file: the path the save dialog returns ("" when it
\* is cancelled); cont: the answer to "Continue anyway?"; io: how the write
\* ends.  Its result: the handler's record and the file system after it.
SavePython(obj, files, file, cont, io) ==
    LET base == [Blank EXCEPT !.op = "save_python", !.obj = obj]
        asked == IF HoldsWidgets(obj)
                 THEN <<Asked("Warning: Contains Widgets", cont)>> ELSE <<>>
        test_data == PickleDumps(obj, HIGHEST_PROTOCOL)
        chosen == [base EXCEPT !.asked = asked, !.file = file]
    IN
    IF ~Truthy(obj)
        THEN [rep |-> [base EXCEPT !.dialog = "No Object Selected"], fs |-> files]
    ELSE IF IsWidget(obj)
        THEN [rep |-> [base EXCEPT !.dialog = "Cannot Pickle GUI Widget"], fs |-> files]
    ELSE IF HoldsWidgets(obj) /\ ~cont
        THEN [rep |-> [base EXCEPT !.asked = asked], fs |-> files]
    ELSE IF file = ""
        THEN [rep |-> chosen, fs |-> files]
    ELSE IF ~test_data.ok
        THEN [rep |-> [chosen EXCEPT
                        !.steps = <<"dumps">>,
                        !.dialog =
                            IF test_data.exc \in {"PicklingError", "TypeError",
                                                  "AttributeError"}
                            THEN "Object Cannot Be Pickled"
                            ELSE "Unexpected Error"],
              fs |-> files]
    ELSE [rep |-> [chosen EXCEPT
                    !.io = io,
                    !.steps = IF io = "open_fails" THEN <<"dumps", "open">>
                              ELSE <<"dumps", "open", "write">>,
                    !.method = "pickle",
                    !.dialog = WriteDialog(io, "Object Saved Successfully")],
          fs |-> WriteFile(files, file, test_data.data, io)]

\* A variant of ConvertBinary without the structured-text case.
ConvertBinary_NoJson(obj) ==
    LET conv(data, method) == [ok |-> TRUE, data |-> data, method |-> method,
                               dialog |-> ""]
        pk == PickleDumps(obj, DEFAULT_PROTOCOL)
    IN
    IF obj.t = "bytes" THEN conv(obj.s, "raw bytes")
    ELSE IF obj.t = "str" THEN conv(Utf8Bytes(obj.s), "UTF-8 encoded text")
    ELSE IF obj.t \in {"int", "bool"}
        THEN conv(Utf8Bytes(NumberStr(obj)), "number as UTF-8 text")
    ELSE IF pk.ok THEN conv(pk.data, "pickle")
    ELSE [ok |-> FALSE, data |-> <<>>, method |-> "", dialog |-> "Cannot Convert"]

\* A variant of ConvertBinary that gives up when structured text fails.
ConvertBinary_NoFallback(obj) ==
    LET conv(data, method) == [ok |-> TRUE, data |-> data, method |-> method,
                               dialog |-> ""]
        fail(dialog) == [ok |-> FALSE, data |-> <<>>, method |-> "",
                         dialog |-> dialog]
        js == JsonDumps(obj)
        pk == PickleDumps(obj, DEFAULT_PROTOCOL)
    IN
    IF obj.t = "bytes" THEN conv(obj.s, "raw bytes")
    ELSE IF obj.t = "str" THEN conv(Utf8Bytes(obj.s), "UTF-8 encoded text")
    ELSE IF obj.t \in {"int", "bool"}
        THEN conv(Utf8Bytes(NumberStr(obj)), "number as UTF-8 text")
    ELSE IF obj.t \in {"dict", "list", "tuple"}
        THEN IF js.ok THEN conv(Utf8Bytes(js.s), "JSON encoded")
             ELSE fail("Conversion Failed")
    ELSE IF pk.ok THEN conv(pk.data, "pickle")
    ELSE fail("Cannot Convert")

\* The conversion of save_object_binary: the bytes to write and the name of
\* the conversion, or the error dialog that ends the save.
ConvertBinary(obj) ==
    LET conv(data, method) == [ok |-> TRUE, data |-> data, method |-> method,
                               dialog |-> ""]
        fail(dialog) == [ok |-> FALSE, data |-> <<>>, method |-> "",
                         dialog |-> dialog]
        enc == Utf8Encode(obj.s)
        js == JsonDumps(obj)
        pk == PickleDumps(obj, DEFAULT_PROTOCOL)
    IN
    IF obj.t = "bytes" THEN conv(obj.s, "raw bytes")
    ELSE IF obj.t = "str"
        THEN IF enc.ok THEN conv(enc.data, "UTF-8 encoded text")
             ELSE fail("Encoding Error")
    ELSE IF obj.t \in {"int", "bool", "float"}
        THEN conv(Utf8Bytes(IF obj.t = "float" THEN obj.s ELSE NumberStr(obj)),
                  "number as UTF-8 text")
    ELSE IF obj.t \in {"dict", "list", "tuple"}
        THEN IF js.ok THEN conv(Utf8Bytes(js.s), "JSON encoded")
             ELSE IF js.exc \notin {"TypeError", "ValueError"} THEN fail("Save Failed")
             ELSE IF pk.ok THEN conv(pk.data, "pickle (JSON failed)")
             ELSE fail("Conversion Failed")
    ELSE IF pk.ok THEN conv(pk.data, "pickle")
    ELSE fail("Cannot Convert")

\* save_object_binary
SaveBinary(obj, files, file, io) ==
    LET base == [Blank EXCEPT !.op = "save_binary", !.obj = obj]
        chosen == [base EXCEPT !.file = file]
        c == ConvertBinary(obj)
    IN
    IF ~Truthy(obj)
        THEN [rep |-> [base EXCEPT !.dialog = "No Object Selected"], fs |-> files]
    ELSE IF file = ""
        THEN [rep |-> chosen, fs |-> files]
    ELSE IF ~c.ok
        THEN [rep |-> [chosen EXCEPT !.steps = <<"convert">>, !.dialog = c.dialog],
              fs |-> files]
    ELSE [rep |-> [chosen EXCEPT
                    !.io = io,
                    !.steps = IF io = "open_fails" THEN <<"convert", "open">>
                              ELSE <<"convert", "open", "write">>,
                    !.method = c.method,
                    !.dialog = WriteDialog(io, "Binary Saved")],
          fs |-> WriteFile(files, file, c.data, io)]

----------------------------------------------------------------------------
(* The load operations.                                                    *)

\* How reading the chosen file can end: os.access denies it, open() or
\* read() raises IOError or MemoryError, or the bytes are read.
ReadOutcomes == {"ok", "unreadable", "ioerror", "memory"}

\* self.loaded_objects[name] = obj
Put(store, name, obj) ==
    [n \in DOMAIN store \cup {name} |-> IF n = name THEN obj ELSE store[n]]

\* The except clauses of load_object_python: the dialog for an exception.
PythonLoadDialog(exc) ==
    CASE exc = "UnpicklingError" -> "Invalid Pickle File"
      [] exc \in {"EOFError", "ValueError", "UnicodeDecodeError"} -> "Corrupted File"
      [] exc \in {"ImportError", "ModuleNotFoundError"} -> "Missing Module"
      [] exc = "AttributeError" -> "Incompatible Version"
      [] exc = "MemoryError" -> "Out of Memory"
      [] OTHER -> "Load Failed"

\* A variant of LoadFailed that drops what was loaded before.
LoadFailed_Clears(rep, store, exc) ==
    [rep |-> [rep EXCEPT !.dialog = PythonLoadDialog(exc)], store |-> <<>>]

\* load_object_python when pickle.load raised exc: the except clause reports
\* it, and the store is not touched.
LoadFailed(rep, store, exc) ==
    [rep |-> [rep EXCEPT !.dialog = PythonLoadDialog(exc)], store |-> store]

\* A variant of StoreLoaded that stores whatever the overwrite answer is.
StoreLoaded_Regardless(rep, store, name, overwrite, dup, done) ==
    IF name \in {Cancelled, ""}
        THEN [rep |-> [rep EXCEPT !.dialog = "Load Cancelled"], store |-> store]
    ELSE [rep |-> [rep EXCEPT
                    !.name = name,
                    !.asked = IF name \in DOMAIN store
                              THEN Append(@, Asked(dup, overwrite)) ELSE @,
                    !.shown = rep.attempts,
                    !.dialog = IF name \in DOMAIN store /\ ~overwrite
                               THEN "" ELSE done],
          store |-> Put(store, name, rep.obj)]

\* A variant of StoreLoaded that takes the empty text for a name.
StoreLoaded_EmptyName(rep, store, name, overwrite, dup, done) ==
    IF name = Cancelled
        THEN [rep |-> [rep EXCEPT !.dialog = "Load Cancelled"], store |-> store]
    ELSE [rep |-> [rep EXCEPT !.name = name, !.shown = rep.attempts, !.dialog = done],
          store |-> Put(store, name, rep.obj)]

\* The end both load operations share: the name prompt, the duplicate check
\* and the store.  rep: the handler's record so far, with the loaded object;
\* dup: the title of the overwrite question; done: that of the final box.
StoreLoaded(rep, store, name, overwrite, dup, done) ==
    IF name \in {Cancelled, ""}
        THEN [rep |-> [rep EXCEPT !.dialog = "Load Cancelled"], store |-> store]
    ELSE IF name \in DOMAIN store /\ ~overwrite
        THEN [rep |-> [rep EXCEPT !.name = name,
                                  !.asked = Append(@, Asked(dup, FALSE))],
              store |-> store]
    ELSE [rep |-> [rep EXCEPT
                    !.name = name,
                    !.asked = IF name \in DOMAIN store
                              THEN Append(@, Asked(dup, TRUE)) ELSE @,
                    !.shown = rep.attempts,
                    !.dialog = done],
          store |-> Put(store, name, rep.obj)]

\* A variant of Declined that takes every answer for a yes.
Declined_Never(large, big) == FALSE

\* `if file_size > 100 * 1024 * 1024: ... if not result: return`: the load
\* ends at the large-file question.
Declined(large, big) == large /\ ~big

\* load_object_python.  file: the path the open dialog returns; access: how
\* reading it ends; big: the answer to the large-file question; name: what
\* ask_object_name returns; overwrite: the answer to "Overwrite it?".
LoadPython(files, store, file, access, big, name, overwrite) ==
    LET base == [Blank EXCEPT !.op = "load_python", !.file = file]
        found == [base EXCEPT !.io = access]
        f == files[file]
        large == FileSize(f) > LargeFileBytes
        asked == [found EXCEPT
                    !.asked = IF large THEN <<Asked("Large File Warning", big)>> ELSE <<>>]
        opened == [asked EXCEPT !.steps = <<"open">>]
        loaded == PickleLoads(f.data)
        end(rep) == [rep |-> rep, store |-> store]
    IN
    IF file = "" THEN end(base)
    ELSE IF f = NoFile THEN end([base EXCEPT !.dialog = "File Not Found"])
    ELSE IF access = "unreadable"
        THEN end([found EXCEPT !.dialog = "Permission Denied"])
    ELSE IF Declined(large, big) THEN end(asked)
    ELSE IF access = "ioerror" THEN end([opened EXCEPT !.dialog = "Load Failed"])
    ELSE IF access = "memory" THEN end([opened EXCEPT !.dialog = "Out of Memory"])
    ELSE IF ~loaded.ok
        THEN LoadFailed([opened EXCEPT !.steps = <<"open", "load">>], store,
                        loaded.exc)
    ELSE StoreLoaded([opened EXCEPT !.steps = <<"open", "load">>,
                                    !.interpretation = "Python pickle",
                                    !.obj = loaded.v],
                     store, name, overwrite, "Name Already Exists", "Object Loaded")

\* One entry of the attempts list: f"{step}: {type(e).__name__}".
Attempt(step, exc) == [step |-> step, exc |-> exc]

\* Step 1 of the interpretation chain of load_object_binary, "Try pickle":
\* loaded_obj, interpretation and attempts after it.  p: what pickle.loads
\* made of the bytes.
TryPickle(p) ==
    IF p.ok
    THEN [obj |-> p.v, interpretation |-> "Python pickle", attempts |-> <<>>]
    ELSE [obj |-> NoneV, interpretation |-> "unknown",
          attempts |-> <<Attempt("Pickle", p.exc)>>]

\* A variant of TryJson that keeps no record of a failure.
TryJson_Silent(c, u, j) ==
    IF c.obj # NoneV \/ ~u.ok \/ ~j.ok THEN c
    ELSE [c EXCEPT !.obj = j.v, !.interpretation = "JSON"]

\* Step 2, "Try JSON", entered when loaded_obj is None.  c: the chain so
\* far; u: what data.decode('utf-8') gives; j: what json.loads makes of it.
TryJson(c, u, j) ==
    IF c.obj # NoneV THEN c
    ELSE IF ~u.ok THEN [c EXCEPT !.attempts = Append(@, Attempt("JSON", u.exc))]
    ELSE IF ~j.ok THEN [c EXCEPT !.attempts = Append(@, Attempt("JSON", j.exc))]
    ELSE [c EXCEPT !.obj = j.v, !.interpretation = "JSON"]

\* Step 3, "Try plain text", entered when loaded_obj is None.
TryText(c, u) ==
    IF c.obj # NoneV THEN c
    ELSE IF ~u.ok THEN [c EXCEPT !.attempts = Append(@, Attempt("UTF-8", u.exc))]
    ELSE [c EXCEPT !.obj = StrV(u.s), !.interpretation = "UTF-8 text"]

\* A variant of KeepRaw that has no last resort.
KeepRaw_GivesUp(c, data) == c

\* Step 4, "Keep as raw bytes", entered when loaded_obj is None.
KeepRaw(c, data) ==
    IF c.obj # NoneV THEN c
    ELSE [c EXCEPT !.obj = BytesV(data), !.interpretation = "raw bytes"]

\* The interpretation chain of load_object_binary over the bytes read.
InterpretBinary(data) ==
    KeepRaw(TryText(TryJson(TryPickle(PickleLoads(data)),
                            Utf8Decode(data),
                            JsonLoads(Utf8Decode(data).s)),
                    Utf8Decode(data)),
            data)

\* The handler's record once the chain has run.
Interpreted(rep, c) ==
    [rep EXCEPT !.steps = <<"open", "read">>,
                !.interpretation = c.interpretation,
                !.attempts = c.attempts,
                !.obj = c.obj]

\* load_object_binary, with the inputs of LoadPython.
LoadBinary(files, store, file, access, big, name, overwrite) ==
    LET base == [Blank EXCEPT !.op = "load_binary", !.file = file]
        found == [base EXCEPT !.io = access]
        f == files[file]
        large == FileSize(f) > LargeFileBytes
        asked == [found EXCEPT
                    !.asked = IF large THEN <<Asked("Large File", big)>> ELSE <<>>]
        opened == [asked EXCEPT !.steps = <<"open">>]
        end(rep) == [rep |-> rep, store |-> store]
    IN
    IF file = "" THEN end(base)
    ELSE IF f = NoFile THEN end([base EXCEPT !.dialog = "File Not Found"])
    ELSE IF access = "unreadable"
        THEN end([found EXCEPT !.dialog = "Permission Denied"])
    ELSE IF FileSize(f) = 0 THEN end([found EXCEPT !.dialog = "Empty File"])
    ELSE IF Declined(large, big) THEN end(asked)
    ELSE IF access = "ioerror" THEN end([opened EXCEPT !.dialog = "Read Error"])
    ELSE IF access = "memory" THEN end([opened EXCEPT !.dialog = "Out of Memory"])
    ELSE StoreLoaded(Interpreted(opened, InterpretBinary(f.data)),
                     store, name, overwrite, "Duplicate Name", "Binary Loaded")

----------------------------------------------------------------------------
(* The browser as a state machine: one action per handler.                 *)

\* d.get(key, default), for a mapping d.
Get(d, key, default) ==
    IF \E k \in 1..(Len(d.c) \div 2) : d.c[2 * k - 1] = key
    THEN d.c[2 * (CHOOSE k \in 1..(Len(d.c) \div 2) : d.c[2 * k - 1] = key)]
    ELSE default

\* 'notepad {filename}'
NotepadCommand == StrV(<<110, 111, 116, 101, 112, 97, 100, 32, 123, 102, 105, 108, 101, 110, 97, 109, 101, 125>>)

\* adv.get('editor_command', 'notepad {filename}'); a value that is no
\* mapping has no get, and the call raises AttributeError.
CommandIn(adv) ==
    IF adv.t # "dict" THEN [ok |-> FALSE, v |-> NoneV]
    ELSE [ok |-> TRUE, v |-> Get(adv, StrV(<<101, 100, 105, 116, 111, 114, 95, 99, 111, 109, 109, 97, 110, 100>>), NotepadCommand)]

\* self.settings.get('advanced', {}).get('editor_command', 'notepad {filename}')
EditorCommandOf(s) ==
    IF s.t # "dict" THEN [ok |-> FALSE, v |-> NoneV]
    ELSE CommandIn(Get(s, StrV(<<97, 100, 118, 97, 110, 99, 101, 100>>), DictV(<<>>)))

\* self.settings refers to the mapping handed to the constructor, or to a
\* mapping load_settings built.  The browser never writes into either.
Given == [from |-> "argument", v |-> NoneV]

Built(v) == [from |-> "load_settings", v |-> v]

\* The mapping self.settings refers to.
Settings(s) == IF s.from = "argument" THEN HostSettings ELSE s.v

\* The graph populate_full_object_tree walks: the settings and the store of
\* the inspected root.  The tree holds the nodes of the graph it was last
\* populated from.
Graph(s, store) == [settings |-> s, loaded_objects |-> store]

\* The detail views before anything was selected.
NothingShown == Opaque("<nothing>")

\* No settings.json in the working directory.
NoSettingsFile == <<-1>>

\* No run of the walker.
NoWalk ==
    [heap |-> <<>>, obj |-> NoneV, depth |-> 0, max_depth |-> 0, done |-> FALSE,
     nodes |-> <<>>]

\* The variables of the settings and of the walker on its own.
aside == <<settings_file, walk, document, editor_command>>

\* ObjectBrowser.__init__ with a settings mapping: nothing selected, nothing
\* loaded, the tree populated.
Init ==
    /\ current_object = NoneV
    /\ current_object_path = <<>>
    /\ loaded_objects = <<>>
    /\ fs \in [Files -> SampleFiles \cup {NoFile}]
    /\ last = Blank
    /\ settings = Given
    /\ tree = Graph(settings, loaded_objects)
    /\ detail = NothingShown
    /\ settings_file = NoSettingsFile
    /\ walk = NoWalk
    /\ document = NoneV
    /\ editor_command = EditorCommandOf(Settings(settings)).v

\* The load reached the store, and with it populate_full_object_tree.
Stored(rep) == rep.dialog \in {"Object Loaded", "Binary Loaded"}

\* The answers a yes/no question can get; it is answered only when asked.
Answers(isAsked) == IF isAsked THEN BOOLEAN ELSE {FALSE}

\* What on_object_selected leaves of the previous handler: nothing.
Selected == [Blank EXCEPT !.op = "select"]

\* on_object_selected on the node of a value under the inspected root.
SelectHost ==
    \E h \in HostObjects :
        /\ current_object_path' = h.p
        /\ current_object' = h.v
        /\ detail' = h.v
        /\ last' = Selected
        /\ UNCHANGED <<loaded_objects, fs, settings, tree, aside>>

\* on_object_selected on the node of a loaded object.
SelectLoaded ==
    \E n \in DOMAIN loaded_objects :
        /\ current_object_path' = LoadedPath(n)
        /\ current_object' = loaded_objects[n]
        /\ detail' = loaded_objects[n]
        /\ last' = Selected
        /\ UNCHANGED <<loaded_objects, fs, settings, tree, aside>>

SaveObjectPython ==
    \E file \in Files \cup {""}, io \in IoOutcomes,
       cont \in Answers(HoldsWidgets(current_object)) :
        LET r == SavePython(current_object, fs, file, cont, io) IN
        /\ last' = r.rep
        /\ fs' = r.fs
        /\ UNCHANGED <<current_object, current_object_path, loaded_objects,
                       settings, tree, detail, aside>>

SaveObjectBinary ==
    \E file \in Files \cup {""}, io \in IoOutcomes :
        LET r == SaveBinary(current_object, fs, file, io) IN
        /\ last' = r.rep
        /\ fs' = r.fs
        /\ UNCHANGED <<current_object, current_object_path, loaded_objects,
                       settings, tree, detail, aside>>

\* A variant of Loaded in which a load that does not reach the store
\* empties it.
Loaded_Forgets(r) ==
    /\ last' = r.rep
    /\ loaded_objects' = IF Stored(r.rep) THEN r.store ELSE <<>>
    /\ tree' = IF Stored(r.rep) THEN Graph(settings, r.store) ELSE tree
    /\ UNCHANGED <<current_object, current_object_path, fs, settings, detail, aside>>

\* The end of a load: the store, the tree and the record of the handler.
Loaded(r) ==
    /\ last' = r.rep
    /\ loaded_objects' = r.store
    /\ tree' = IF Stored(r.rep) THEN Graph(settings, r.store) ELSE tree
    /\ UNCHANGED <<current_object, current_object_path, fs, settings, detail, aside>>

LoadObjectPythonAs(files, outcomes, answers) ==
    \E file \in files, access \in outcomes, name \in answers :
    \E big \in Answers(file # "" /\ FileSize(fs[file]) > LargeFileBytes),
       overwrite \in Answers(name \in DOMAIN loaded_objects) :
        Loaded(LoadPython(fs, loaded_objects, file, access, big, name, overwrite))

LoadObjectBinaryAs(files, outcomes, answers) ==
    \E file \in files, access \in outcomes, name \in answers :
    \E big \in Answers(file # "" /\ FileSize(fs[file]) > LargeFileBytes),
       overwrite \in Answers(name \in DOMAIN loaded_objects) :
        Loaded(LoadBinary(fs, loaded_objects, file, access, big, name, overwrite))

LoadObjectPython == LoadObjectPythonAs(Files \cup {""}, ReadOutcomes, NameAnswers)

LoadObjectBinary == LoadObjectBinaryAs(Files \cup {""}, ReadOutcomes, NameAnswers)

Next ==
    \/ SelectHost
    \/ SelectLoaded
    \/ SaveObjectPython
    \/ SaveObjectBinary
    \/ LoadObjectPython
    \/ LoadObjectBinary

Spec == Init /\ [][Next]_vars

----------------------------------------------------------------------------
(* Properties of the portable-binary load (load_object_binary).            *)

\* The last handler was load_object_binary and it read the chosen file.
BinaryRead == last.op = "load_binary" /\ last.steps = <<"open", "read">>

\* The last handler was load_object_binary on a file that exists and can be
\* read, and the user did not turn the load down at the large-file question.
BinaryReadable ==
    /\ last.op = "load_binary"
    /\ last.file # ""
    /\ fs[last.file] # NoFile
    /\ last.io = "ok"
    /\ Asked("Large File", FALSE) \notin {last.asked[i] : i \in DOMAIN last.asked}

\* The load ended with an interpretation of the bytes and without an error.
BinaryInterpreted ==
    /\ last.interpretation \in {"Python pickle", "JSON", "UTF-8 text", "raw bytes"}
    /\ last.obj # NoneV
    /\ last.dialog \in {"", "Load Cancelled", "Binary Loaded"}

\* C1 as the specification states it: for every byte sequence in an
\* existing, readable file, the empty one included, load_object_binary ends
\* with an interpretation and never with an error.
C1_TotalOnAllFiles == BinaryReadable => BinaryInterpreted

\* C1, amended: for every non-empty byte sequence in an existing, readable
\* file, load_object_binary ends with a loaded value under one of the four
\* interpretations and with no error; an empty file is turned down with the
\* "Empty File" error before it is read.
C1_TotalOnNonEmptyFiles ==
    BinaryReadable =>
        IF FileSize(fs[last.file]) = 0
        THEN last.dialog = "Empty File" /\ last.steps = <<>>
        ELSE BinaryRead /\ BinaryInterpreted

\* C1: bytes that are no pickle, no JSON and no UTF-8 were loaded as raw bytes.
C1_Witness ==
    /\ BinaryRead
    /\ last.interpretation = "raw bytes"
    /\ Len(last.attempts) = 3
    /\ last.dialog = "Binary Loaded"
    /\ loaded_objects[last.name] = BytesV(fs[last.file].data)

\* C2: whenever the bytes read are a valid pickle of some value, None
\* included, load_object_binary reports "Python pickle" and the decoded value.
C2_PickleIsReportedAsPickle ==
    (BinaryRead /\ PickleLoads(fs[last.file].data).ok) =>
        /\ last.interpretation = "Python pickle"
        /\ last.obj = PickleLoads(fs[last.file].data).v

\* What the earliest succeeding step of the chain yields.  p, u, j: what
\* pickle.loads, data.decode('utf-8') and json.loads give.
FirstSuccess(p, u, j, data) ==
    IF p.ok THEN <<"Python pickle", p.v>>
    ELSE IF u.ok /\ j.ok THEN <<"JSON", j.v>>
    ELSE IF u.ok THEN <<"UTF-8 text", StrV(u.s)>>
    ELSE <<"raw bytes", BytesV(data)>>

\* C3: the interpretation and the value load_object_binary ends with are
\* those of the earliest step that succeeds, in the order pickle, JSON,
\* UTF-8 text, raw bytes, also when that step's result is None.
C3_FirstSuccessWins ==
    BinaryRead =>
        <<last.interpretation, last.obj>> =
            FirstSuccess(PickleLoads(fs[last.file].data),
                         Utf8Decode(fs[last.file].data),
                         JsonLoads(Utf8Decode(fs[last.file].data).s),
                         fs[last.file].data)

\* The failed steps of a run of the chain, in chain order: a step is
\* attempted when every step before it left loaded_obj None.
FailedSteps(p, u, j) ==
    (IF p.ok THEN <<>> ELSE <<Attempt("Pickle", p.exc)>>)
    \o (IF p.ok /\ p.v # NoneV THEN <<>>
        ELSE IF ~u.ok
            THEN <<Attempt("JSON", u.exc), Attempt("UTF-8", u.exc)>>
        ELSE IF ~j.ok THEN <<Attempt("JSON", j.exc)>>
        ELSE <<>>)

\* The attempts list names exactly the steps that were attempted and failed.
AttemptsAreTheFailedSteps ==
    last.attempts = FailedSteps(PickleLoads(fs[last.file].data),
                                Utf8Decode(fs[last.file].data),
                                JsonLoads(Utf8Decode(fs[last.file].data).s))

\* C8 as the specification states it: the attempts list names exactly the
\* failed steps, and it is shown whenever the load reaches its outcome.
C8_AttemptsAlwaysSurfaced ==
    BinaryRead => AttemptsAreTheFailedSteps /\ last.shown = last.attempts

\* C8, amended: the attempts list names exactly the failed steps, in chain
\* order; it is shown in the "Binary Loaded" box of a load that stored its
\* object, and in no other outcome (cancelled name, declined overwrite).
C8_AttemptsSurfacedOnSuccess ==
    BinaryRead =>
        /\ AttemptsAreTheFailedSteps
        /\ last.shown = IF last.dialog = "Binary Loaded" THEN last.attempts ELSE <<>>

\* C8: a load that found text after two failed steps, and showed both.
C8_Witness ==
    /\ BinaryRead
    /\ last.interpretation = "UTF-8 text"
    /\ last.dialog = "Binary Loaded"
    /\ Len(last.shown) = 2

----------------------------------------------------------------------------
(* Properties of the two save operations.                                  *)

\* C4: when save_object_python has a file name and serializing the selected
\* value raises, whatever the exception, the save ends with an error box and
\* the file system is what it was; and the file is never opened before the
\* value has been serialized in memory.
C4_FailedPickleWritesNothing ==
    [][last'.op = "save_python" =>
        /\ (last'.file # "" /\ ~PickleDumps(current_object, HIGHEST_PROTOCOL).ok) =>
              /\ fs' = fs
              /\ last'.steps = <<"dumps">>
              /\ last'.dialog \in {"Object Cannot Be Pickled", "Unexpected Error"}
        /\ \A i \in DOMAIN last'.steps :
              last'.steps[i] = "open" => \E j \in 1..(i - 1) : last'.steps[j] = "dumps"
        /\ fs' # fs => last'.steps = <<"dumps", "open", "write">>]_vars

\* C4: a save that failed with an exception outside the three the inner
\* handler names, and left the file that was there.
C4_Witness ==
    /\ last.op = "save_python"
    /\ last.dialog = "Unexpected Error"
    /\ last.file # ""
    /\ fs[last.file] # NoFile
    /\ FileSize(fs[last.file]) > 0

\* C5: a successful save_object_python leaves in the file exactly the bytes
\* of its one serialization, which decode to a value equal to the saved
\* one; and a successful load_object_python stores under the chosen name
\* the value the file's bytes decode to.
C5_NativeRoundTrip ==
    [][/\ (last'.op = "save_python" /\ last'.dialog = "Object Saved Successfully") =>
              /\ fs'[last'.file] =
                    File(PickleDumps(current_object, HIGHEST_PROTOCOL).data, 0)
              /\ PickleLoads(fs'[last'.file].data) =
                    [ok |-> TRUE, exc |-> "", v |-> current_object]
       /\ (last'.op = "load_python" /\ last'.dialog = "Object Loaded") =>
              /\ PickleLoads(fs[last'.file].data).ok
              /\ loaded_objects'[last'.name] = PickleLoads(fs[last'.file].data).v
              /\ last'.obj = loaded_objects'[last'.name]]_vars

\* C5: a list saved by save_object_python is back in the store, loaded by
\* load_object_python from the file that save wrote.
C5_Witness ==
    /\ last.op = "load_python"
    /\ last.dialog = "Object Loaded"
    /\ current_object = ListV(<<IntV(1), IntV(2)>>)
    /\ fs[last.file].data = PickleDumps(current_object, HIGHEST_PROTOCOL).data
    /\ loaded_objects[last.name] = current_object

\* The last handler was save_object_binary and it got as far as converting.
BinaryConverted == last.op = "save_binary" /\ last.steps # <<>>

\* C6: save_object_binary converts by the first case that matches the type
\* of the selected value: bytes are written as they are, a string as UTF-8,
\* a number as the UTF-8 of its text, a dict, list or tuple as JSON text
\* (or by its fallback), and anything else as a pickle.
C6_FirstMatchingCase ==
    [][(last'.op = "save_binary" /\ last'.steps # <<>>) =>
        LET t == current_object.t
            written == last'.dialog = "Binary Saved" => fs'[last'.file].pad = 0
        IN
        /\ written
        /\ CASE t = "bytes" ->
                  /\ last'.method = "raw bytes"
                  /\ last'.dialog = "Binary Saved" =>
                        fs'[last'.file].data = current_object.s
             [] t = "str" ->
                  \/ last'.dialog = "Encoding Error"
                  \/ /\ last'.method = "UTF-8 encoded text"
                     /\ last'.dialog = "Binary Saved" =>
                           Utf8Decode(fs'[last'.file].data) =
                               [ok |-> TRUE, exc |-> "", s |-> current_object.s]
             [] t \in {"int", "bool", "float"} ->
                  /\ last'.method = "number as UTF-8 text"
                  /\ (last'.dialog = "Binary Saved" /\ t = "int") =>
                        fs'[last'.file].data =
                            (IF current_object.n < 0 THEN <<45>> ELSE <<>>)
                            \o Digits(IF current_object.n < 0
                                      THEN -current_object.n ELSE current_object.n)
             [] t \in {"dict", "list", "tuple"} ->
                  \/ last'.dialog = "Conversion Failed"
                  \/ /\ last'.method = "JSON encoded"
                     /\ JsonDumps(current_object).ok
                     /\ last'.dialog = "Binary Saved" =>
                           fs'[last'.file].data = Utf8Bytes(JsonDumps(current_object).s)
                  \/ /\ last'.method = "pickle (JSON failed)"
                     /\ ~JsonDumps(current_object).ok
             [] OTHER ->
                  \/ last'.dialog = "Cannot Convert"
                  \/ /\ last'.method = "pickle"
                     /\ last'.dialog = "Binary Saved" =>
                           PickleLoads(fs'[last'.file].data) =
                               [ok |-> TRUE, exc |-> "", v |-> current_object]]_vars

\* C6: a list was saved as JSON text.
C6_Witness ==
    /\ BinaryConverted
    /\ last.dialog = "Binary Saved"
    /\ last.method = "JSON encoded"
    /\ current_object.t = "list"
    /\ fs[last.file].data = Utf8Bytes(JsonDumps(current_object).s)

\* C7: when the selected value is a dict, list or tuple and JSON encoding
\* fails, save_object_binary writes the pickle of the same value; when the
\* pickle fails too, there or in the last case, the save ends with an error
\* box and the file system is what it was.
C7_JsonFallsBackToPickle ==
    [][(last'.op = "save_binary" /\ last'.steps # <<>>) =>
        LET structured == current_object.t \in {"dict", "list", "tuple"}
            native == PickleDumps(current_object, DEFAULT_PROTOCOL)
        IN
        /\ (structured /\ ~JsonDumps(current_object).ok /\ native.ok) =>
              /\ last'.method = "pickle (JSON failed)"
              /\ last'.dialog \in {"Binary Saved", "File Write Error"}
              /\ last'.dialog = "Binary Saved" =>
                    /\ fs'[last'.file] = File(native.data, 0)
                    /\ PickleLoads(native.data).v = current_object
        /\ (structured /\ ~JsonDumps(current_object).ok /\ ~native.ok) =>
              /\ last'.dialog = "Conversion Failed"
              /\ fs' = fs
        /\ (current_object.t \notin {"bytes", "str", "int", "bool", "float",
                                      "dict", "list", "tuple"} /\ ~native.ok) =>
              /\ last'.dialog = "Cannot Convert"
              /\ fs' = fs]_vars

\* C7: a list JSON cannot hold was saved as its pickle.
C7_Witness ==
    /\ BinaryConverted
    /\ last.dialog = "Binary Saved"
    /\ last.method = "pickle (JSON failed)"
    /\ ~JsonDumps(current_object).ok
    /\ PickleLoads(fs[last.file].data).v = current_object

----------------------------------------------------------------------------
(* Properties of the store of loaded objects.                              *)

\* C9: when load_object_python cannot decode the file (pickle.load raises,
\* or reading it runs out of memory or fails), the failure is reported in
\* an error box and loaded_objects is exactly what it was.
C9_FailedLoadLeavesStore ==
    [][(/\ last'.op = "load_python"
        /\ last'.steps # <<>>
        /\ \/ last'.io # "ok"
           \/ ~PickleLoads(fs[last'.file].data).ok) =>
        /\ loaded_objects' = loaded_objects
        /\ last'.dialog \in {"Invalid Pickle File", "Corrupted File", "Missing Module",
                             "Incompatible Version", "Out of Memory", "Load Failed"}]_vars

\* C9: a load that failed on a missing module while an object was loaded.
C9_Witness ==
    /\ last.op = "load_python"
    /\ last.dialog = "Missing Module"
    /\ loaded_objects # <<>>

\* C10: on both load paths, a load under a name that is in use asks whether
\* to overwrite; when the answer is no the store is what it was, and the
\* entry gets the loaded value only when the answer is yes.
C10_OverwriteNeedsConfirmation ==
    [][(/\ last'.op \in {"load_python", "load_binary"}
        /\ last'.name \in DOMAIN loaded_objects) =>
        LET dup == IF last'.op = "load_python" THEN "Name Already Exists"
                   ELSE "Duplicate Name"
            answers == {last'.asked[i] : i \in DOMAIN last'.asked}
        IN
        /\ Asked(dup, TRUE) \in answers \/ Asked(dup, FALSE) \in answers
        /\ Asked(dup, FALSE) \in answers =>
              /\ loaded_objects' = loaded_objects
              /\ last'.dialog = ""
        /\ Asked(dup, TRUE) \in answers =>
              /\ loaded_objects' = Put(loaded_objects, last'.name, last'.obj)
              /\ last'.dialog \in {"Object Loaded", "Binary Loaded"}]_vars

\* C10: a binary load under a name in use was declined, and the entry still
\* holds another value than the one that was loaded.
C10_Witness ==
    /\ last.op = "load_binary"
    /\ Asked("Duplicate Name", FALSE) \in {last.asked[i] : i \in DOMAIN last.asked}
    /\ last.name \in DOMAIN loaded_objects
    /\ loaded_objects[last.name] # last.obj

----------------------------------------------------------------------------
(* The large-file gate of both loads.                                      *)

\* The titles of the large-file question of the two loads.
LargeFileTitles == {"Large File Warning", "Large File"}

\* The answers the handler of rep got to its large-file question.
LargeFileAnswers(rep) ==
    {rep.asked[i].a : i \in {j \in DOMAIN rep.asked : rep.asked[j].q \in LargeFileTitles}}

\* C12: on both load paths, a load of a file above the threshold opens the
\* file only after a yes to the large-file question; after a no the file is
\* not opened, nothing is decoded, and the store is what it was.
C12_LargeFileGate ==
    [][(/\ last'.op \in {"load_python", "load_binary"}
        /\ last'.file # ""
        /\ fs[last'.file] # NoFile
        /\ FileSize(fs[last'.file]) > LargeFileBytes) =>
        /\ last'.steps # <<>> => LargeFileAnswers(last') = {TRUE}
        /\ FALSE \in LargeFileAnswers(last') =>
              /\ last'.steps = <<>>
              /\ last'.obj = NoneV
              /\ loaded_objects' = loaded_objects]_vars

\* C12: a load of a large file was declined while an object was loaded.
C12_Witness ==
    /\ last.op \in {"load_python", "load_binary"}
    /\ LargeFileAnswers(last) = {FALSE}
    /\ FileSize(fs[last.file]) > LargeFileBytes
    /\ loaded_objects # <<>>

\* dict.get(key): the value of the key, None without it.
RECURSIVE DictGetFrom(_, _, _)
DictGetFrom(c, key, i) ==
    IF i > Len(c) THEN NoneV
    ELSE IF c[i] = key THEN c[i + 1]
    ELSE DictGetFrom(c, key, i + 2)

DictGet(d, key) == IF d.t = "dict" THEN DictGetFrom(d.c, key, 1) ELSE NoneV

\* advanced.large_file_warning_mb of the settings, in bytes.
ConfiguredLargeFileBytes(s) ==
    DictGet(DictGet(s, StrV(<<97, 100, 118, 97, 110, 99, 101, 100>>)),
            StrV(<<108, 97, 114, 103, 101, 95, 102, 105, 108, 101, 95, 119, 97, 114, 110, 105, 110, 103, 95, 109, 98>>)).n * 1024 * 1024

\* C13: a load that gets to the size of its file asks the large-file
\* question exactly when the size is above advanced.large_file_warning_mb
\* of the settings.
C13_ThresholdIsConfigured ==
    (/\ last.op \in {"load_python", "load_binary"}
     /\ last.io \in {"ok", "ioerror", "memory"}) =>
        (LargeFileAnswers(last) # {}
            <=> FileSize(fs[last.file]) > ConfiguredLargeFileBytes(Settings(settings)))

----------------------------------------------------------------------------
(* repr(value) as the walker uses it: in the preview of a scalar and in    *)
(* the path of a mapping entry.  A code point above 127 counts as          *)
(* printable unless it is a C1 control, the no-break space, the soft       *)
(* hyphen or a surrogate.                                                  *)

\* \xNN
HexEscape(c) == <<92, 120, HexDigit(c \div 16), HexDigit(c % 16)>>

\* str.isprintable for one code point of a str.
Printable(c) ==
    /\ c >= 32
    /\ c # 127
    /\ ~(c >= 128 /\ c <= 160)
    /\ c # 173
    /\ ~IsSurrogate(c)

\* One character of repr(str) between the quotes q.
ReprChar(c, q) ==
    CASE c = q \/ c = 92 -> <<92, c>>
      [] c = 9 -> <<92, 116>>
      [] c = 10 -> <<92, 110>>
      [] c = 13 -> <<92, 114>>
      [] Printable(c) -> <<c>>
      [] c < 256 -> HexEscape(c)
      [] OTHER -> JsonUEscape(c)

\* One byte of repr(bytes) between the quotes q.
ReprByte(c, q) ==
    CASE c = q \/ c = 92 -> <<92, c>>
      [] c = 9 -> <<92, 116>>
      [] c = 10 -> <<92, 110>>
      [] c = 13 -> <<92, 114>>
      [] c >= 32 /\ c < 127 -> <<c>>
      [] OTHER -> HexEscape(c)

RECURSIVE ReprChars(_, _, _, _)
ReprChars(s, q, isBytes, i) ==
    IF i > Len(s) THEN <<>>
    ELSE (IF isBytes THEN ReprByte(s[i], q) ELSE ReprChar(s[i], q))
         \o ReprChars(s, q, isBytes, i + 1)

\* The quote repr puts around s: ' unless s has a ' and no ".
ReprQuote(s) ==
    IF (\E i \in DOMAIN s : s[i] = 39) /\ ~(\E i \in DOMAIN s : s[i] = 34)
    THEN 34 ELSE 39

ReprQuoted(s, q, isBytes) == <<q>> \o ReprChars(s, q, isBytes, 1) \o <<q>>

\* repr(value).  A value that is no scalar, no byte string and no tuple is
\* given the repr of an object without one of its own, <t object>.
RECURSIVE Repr(_)
RECURSIVE ReprAll(_, _)
ReprAll(c, i) ==
    IF i > Len(c) THEN <<>>
    ELSE (IF i > 1 THEN <<44, 32>> ELSE <<>>) \o Repr(c[i]) \o ReprAll(c, i + 1)

Repr(v) ==
    CASE v.t = "NoneType" -> <<78, 111, 110, 101>>
      [] v.t \in {"bool", "int"} -> NumberStr(v)
      [] v.t = "str" -> ReprQuoted(v.s, ReprQuote(v.s), FALSE)
      [] v.t = "bytes" -> <<98>> \o ReprQuoted(v.s, ReprQuote(v.s), TRUE)
      [] v.t = "tuple" ->
            <<40>> \o ReprAll(v.c, 1) \o (IF Len(v.c) = 1 THEN <<44>> ELSE <<>>) \o <<41>>
      [] OTHER -> <<60, 111, 98, 106, 101, 99, 116, 62>>

\* str(value): the text itself for a str, repr(value) for the rest.
Str(v) == IF v.t = "str" THEN v.s ELSE Repr(v)

\* text[:n]
Take(text, n) == SubSeq(text, 1, IF Len(text) < n THEN Len(text) ELSE n)

----------------------------------------------------------------------------
(* The walker, _enumerate_object.  A value may hold a reference into a    *)
(* heap, which is how a value comes to contain itself.  An object that is  *)
(* no mapping and no sequence lists its members in c, as name and value in *)
(* the order of dir(); dir() of the model is the two names every object    *)
(* has, and the public names.                                              *)

\* A reference to heap[i].
RefV(i) == V("ref", i, <<>>, <<>>)

Deref(heap, v) == IF v.t = "ref" THEN heap[v.n] ELSE v

\* A member whose getattr raises.
Raises == Opaque("<raises>")

\* An object of class t with the members c.
ObjV(t, c) == V(t, 0, <<>>, c)

\* isinstance(value, (str, int, float, bool))
ScalarTypes == {"str", "int", "float", "bool"}

IsScalar(v) == v.t \in ScalarTypes

\* callable(value)
CallableTypes == {"function", "builtin_function_or_method", "method", "type"}

IsCallable(v) == v.t \in CallableTypes

\* hasattr(value, '__dict__')
HasDict(v) ==
    v.t \notin {"NoneType", "bool", "int", "float", "str", "bytes", "list", "tuple",
                "set", "dict", "builtin_function_or_method"}

Member(name, v) == [kind |-> "attr", key |-> StrV(name), v |-> v]

BuiltinMethod == Opaque("builtin_function_or_method")

\* The public names of dir(obj), with their values.
PublicMembers(obj) ==
    CASE obj.t \in {"int", "bool"} ->
            <<Member(<<98, 105, 116, 95, 108, 101, 110, 103, 116, 104>>, BuiltinMethod), Member(<<114, 101, 97, 108>>, IntV(obj.n))>>
      [] obj.t = "str" -> <<Member(<<117, 112, 112, 101, 114>>, BuiltinMethod)>>
      [] obj.t = "bytes" -> <<Member(<<104, 101, 120>>, BuiltinMethod)>>
      [] obj.t = "set" -> <<Member(<<97, 100, 100>>, BuiltinMethod)>>
      [] obj.t \in {"NoneType", "float", "builtin_function_or_method", "method"} -> <<>>
      [] OTHER -> [k \in 1..(Len(obj.c) \div 2) |->
                      Member(obj.c[2 * k - 1].s, obj.c[2 * k])]

\* dir(obj), with the value of each name.
Dir(obj) ==
    <<Member(<<95, 95, 99, 108, 97, 115, 115, 95, 95>>, Opaque("type")),
      Member(<<95, 95, 100, 111, 99, 95, 95>>, IF HasDict(obj) THEN NoneV ELSE StrV(<<100, 111, 99>>))>>
    \o PublicMembers(obj)

\* A variant of Listed that skips the names with '_' at every depth.
Listed_SkipsAtRoot(m, depth) ==
    /\ ~(m.key.s # <<>> /\ m.key.s[1] = 95)
    /\ m.v # Raises

\* `if depth > 0 and attr_name.startswith('_'): continue`, and the member
\* whose getattr raises: `except: pass`.
Listed(m, depth) ==
    /\ ~(depth > 0 /\ m.key.s # <<>> /\ m.key.s[1] = 95)
    /\ m.v # Raises

\* A mapping key whose str() raises.
Unprintable == Opaque("<unprintable>")

\* The entry of a mapping at which the loop over its items ends: str(key)
\* raises outside the try of the preview, and the `except: pass` that takes
\* it is the one around the whole body of _enumerate_object.
Aborts(it) == it.kind = "key" /\ it.key = Unprintable

\* What the branch of _enumerate_object for obj iterates over.
Items(obj, depth) ==
    CASE obj.t = "dict" ->
            [k \in 1..(Len(obj.c) \div 2) |->
                [kind |-> "key", key |-> obj.c[2 * k - 1], v |-> obj.c[2 * k]]]
      [] obj.t \in {"list", "tuple"} ->
            [k \in 1..Len(obj.c) |->
                [kind |-> "index", key |-> IntV(k - 1), v |-> obj.c[k]]]
      [] OTHER -> SelectSeq(Dir(obj), LAMBDA m : Listed(m, depth))

\* The path of an entry: f"{obj_name}[{repr(key)}]", f"{obj_name}[{idx}]",
\* f"{obj_name}.{attr_name}".
ChildPath(obj_name, it) ==
    CASE it.kind = "key" -> obj_name \o <<91>> \o Repr(it.key) \o <<93>>
      [] it.kind = "index" -> obj_name \o <<91>> \o NumberStr(it.key) \o <<93>>
      [] OTHER -> obj_name \o <<46>> \o it.key.s

\* A variant of Node that leaves the preview out.
Node_NoPreview(it, value, path, level, depth) ==
    [level |-> level, depth |-> depth, kind |-> it.kind,
     name |-> IF it.kind = "index" THEN NumberStr(it.key) ELSE Str(it.key),
     type |-> value.t, preview |-> <<>>, path |-> path, value |-> value]

\* The node of an entry: its place, the parts of its text, its values and
\* (for the properties) the value it stands for.  A node at level n + 1
\* that follows a node at level n in the tree is below that node.
Node(it, value, path, level, depth) ==
    [level |-> level, depth |-> depth, kind |-> it.kind,
     name |-> IF it.kind = "index" THEN NumberStr(it.key) ELSE Str(it.key),
     type |-> value.t,
     preview |-> IF IsScalar(value) THEN <<Take(Repr(value), 50)>> ELSE <<>>,
     path |-> path,
     value |-> value]

\* A variant of Recurses that expands whatever is no scalar and not None.
Recurses_Callables(kind, value) == ~IsScalar(value) /\ value.t # "NoneType"

\* "Recurse into complex values": the test each branch makes before it
\* calls _enumerate_object on an entry.
Recurses(kind, value) ==
    /\ ~IsScalar(value)
    /\ value.t # "NoneType"
    /\ kind = "attr" =>
          /\ ~IsCallable(value)
          /\ value.t \in {"dict", "list", "tuple"} \/ HasDict(value)

\* A variant of AtDepthBound that lets one more level through.
AtDepthBound_Late(depth, max_depth) == depth > max_depth

\* `if depth >= max_depth: return`
AtDepthBound(depth, max_depth) == depth >= max_depth

RECURSIVE EnumerateObject(_, _, _, _, _, _)
RECURSIVE EnumerateItems(_, _, _, _, _, _, _)

\* The recursive call on an entry, when the branch makes it.
Below(heap, kind, value, path, level, depth, max_depth) ==
    IF Recurses(kind, value)
    THEN EnumerateObject(heap, value, level, path, depth, max_depth)
    ELSE <<>>

\* One turn of the loop: the node of the entry, then what is below it.
EnumerateItem(heap, it, value, path, level, depth, max_depth) ==
    <<Node(it, value, path, level, depth)>>
    \o Below(heap, it.kind, value, path, level, depth + 1, max_depth)

EnumerateItems(heap, items, level, obj_name, depth, max_depth, i) ==
    IF i > Len(items) THEN <<>>
    ELSE IF Aborts(items[i]) THEN <<>>
    ELSE EnumerateItem(heap, items[i], Deref(heap, items[i].v),
                       ChildPath(obj_name, items[i]), level + 1, depth, max_depth)
         \o EnumerateItems(heap, items, level, obj_name, depth, max_depth, i + 1)

\* _enumerate_object(obj, parent_id, obj_name, depth, max_depth): the nodes
\* it inserts below the node at `level`, in the order it inserts them.
EnumerateObject(heap, obj, level, obj_name, depth, max_depth) ==
    IF AtDepthBound(depth, max_depth) THEN <<>>
    ELSE EnumerateItems(heap, Items(obj, depth), level, obj_name, depth, max_depth, 1)

----------------------------------------------------------------------------
(* The walker on its own: one call of _enumerate_object on a value, a      *)
(* depth and a max_depth drawn from the sets below.                        *)

\* The number of entries of each container of a regular value.
Widths == 1..3

\* The number of container levels of a regular value.
Levels == 1..4

\* The values of max_depth.
MaxDepths == 0..4

\* The values of depth a call starts with.
StartDepths == 0..1

\* A regular value: `levels` levels of containers of `width` entries each
\* around the integer 1.
RECURSIVE Nested(_, _, _)
Nested(kind, width, levels) ==
    IF levels = 0 THEN IntV(1)
    ELSE CASE kind = "list" -> ListV([k \in 1..width |-> Nested(kind, width, levels - 1)])
           [] kind = "tuple" -> V("tuple", 0, <<>>,
                                  [k \in 1..width |-> Nested(kind, width, levels - 1)])
           [] kind = "dict" ->
                DictV([k \in 1..(2 * width) |->
                          IF k % 2 = 1 THEN StrV(<<97 + (k \div 2)>>)
                          ELSE Nested(kind, width, levels - 1)])
           [] OTHER ->
                ObjV("Node", [k \in 1..(2 * width) |->
                                 IF k % 2 = 1 THEN StrV(<<97 + (k \div 2)>>)
                                 ELSE Nested(kind, width, levels - 1)])

Rooted(heap, obj) == [heap |-> heap, obj |-> obj]

\* The mapping {a: 1, b: [2, 3]}.
ExampleMapping ==
    DictV(<<StrV(<<97>>), IntV(1), StrV(<<98>>), ListV(<<IntV(2), IntV(3)>>)>>)

\* A class with a public attribute.
SomeClass == V("type", 0, <<>>, <<StrV(<<108, 105, 109, 105, 116>>), IntV(3)>>)

\* Values that contain themselves: a list that is its own element, a
\* mapping that is one of its own values, an object and a list that hold
\* each other, and an object whose mapping holds the object.
SelfContaining ==
    { Rooted(<<ListV(<<RefV(1)>>)>>, RefV(1)),
      Rooted(<<ListV(<<IntV(1), RefV(1), RefV(1)>>)>>, RefV(1)),
      Rooted(<<DictV(<<StrV(<<109, 101>>), RefV(1), StrV(<<110>>), IntV(1)>>)>>, RefV(1)),
      Rooted(<<ObjV("Node", <<StrV(<<105, 116, 101, 109, 115>>), RefV(2)>>), ListV(<<RefV(1)>>)>>, RefV(1)),
      Rooted(<<ObjV("Node", <<StrV(<<118, 97, 114, 115>>), RefV(2)>>),
               DictV(<<StrV(<<111, 119, 110, 101, 114>>), RefV(1)>>)>>, RefV(2)) }

\* Values with callables in them: as the root, as a member, as a mapping
\* value and as a sequence element.
WithCallables ==
    { Rooted(<<>>, v) :
        v \in { Opaque("function"), BuiltinMethod, SomeClass,
                ObjV("Node", <<StrV(<<114, 117, 110>>), Opaque("method"), StrV(<<107, 105, 110, 100>>), SomeClass>>),
                DictV(<<StrV(<<102>>), Opaque("function"), StrV(<<110>>), IntV(1)>>),
                DictV(<<StrV(<<99, 108, 115>>), SomeClass>>),
                ListV(<<Opaque("function"), IntV(1)>>),
                ListV(<<SomeClass>>) } }

\* Values of the remaining kinds: scalars, None, a set, a byte string,
\* mappings with a key that cannot be printed, an object with a private
\* member and one whose member cannot be read.
Others ==
    { Rooted(<<>>, v) :
        v \in { IntV(5), StrV(<<105, 116, 39, 115>>), NoneV, SetV(<<IntV(1)>>), BytesV(<<255>>),
                ExampleMapping,
                DictV(<<StrV(<<97>>), ListV(<<IntV(1)>>), Unprintable, IntV(2), StrV(<<99>>), IntV(3)>>),
                DictV(<<StrV(<<95, 107>>), DictV(<<StrV(<<95, 106>>), IntV(1)>>)>>),
                ObjV("Node", <<StrV(<<105, 110, 100, 101, 120>>),
                               DictV(<<Unprintable, IntV(1), StrV(<<98>>), IntV(2)>>),
                               StrV(<<115, 105, 122, 101>>), IntV(1)>>),
                ObjV("Node", <<StrV(<<95, 104, 105, 100, 100, 101, 110>>), ListV(<<IntV(1)>>),
                               StrV(<<98, 114, 111, 107, 101, 110>>), Raises,
                               StrV(<<116, 97, 103, 115>>), SetV(<<IntV(1)>>),
                               StrV(<<99, 104, 105, 108, 100>>), ObjV("Node", <<StrV(<<95, 120>>), IntV(1),
                                                              StrV(<<121>>), IntV(2)>>)>>) } }

WalkInputs ==
    { Rooted(<<>>, Nested(kind, width, levels)) :
        kind \in {"list", "tuple", "dict", "object"}, width \in Widths, levels \in Levels }
    \cup SelfContaining \cup WithCallables \cup Others

\* The name the walked value goes by.
WalkName == <<115, 101, 108, 102>>

WalkInit ==
    /\ current_object = NoneV
    /\ current_object_path = <<>>
    /\ loaded_objects = <<>>
    /\ fs = [f \in Files |-> NoFile]
    /\ last = Blank
    /\ settings = Given
    /\ tree = Graph(settings, loaded_objects)
    /\ detail = NothingShown
    /\ settings_file = NoSettingsFile
    /\ document = NoneV
    /\ editor_command = EditorCommandOf(Settings(settings)).v
    /\ walk \in { [heap |-> r.heap, obj |-> r.obj, depth |-> d, max_depth |-> m,
                   done |-> FALSE, nodes |-> <<>>] :
                  r \in WalkInputs, d \in StartDepths, m \in MaxDepths }

\* _enumerate_object(obj, parent_id, obj_name, depth, max_depth)
Walk ==
    /\ ~walk.done
    /\ walk' = [walk EXCEPT
                  !.done = TRUE,
                  !.nodes = EnumerateObject(walk.heap, Deref(walk.heap, walk.obj), 0,
                                            WalkName, walk.depth, walk.max_depth)]
    /\ UNCHANGED <<current_object, current_object_path, loaded_objects, fs, last,
                   settings, tree, detail, settings_file, document, editor_command>>

WalkNext == Walk

WalkSpec == WalkInit /\ [][WalkNext]_vars

\* The nodes of the walk below node i: the ones after it up to the next
\* node that is not deeper than it.
RECURSIVE UnderFrom(_, _, _)
UnderFrom(nodes, i, j) ==
    IF j > Len(nodes) \/ nodes[j].level <= nodes[i].level THEN {}
    ELSE {j} \cup UnderFrom(nodes, i, j + 1)

Under(nodes, i) == UnderFrom(nodes, i, i + 1)

\* The children of node i.
Children(nodes, i) == {j \in Under(nodes, i) : nodes[j].level = nodes[i].level + 1}

\* C14: a call of _enumerate_object with depth 0 and max_depth M creates no
\* node more than M levels below the node it was called for, and a call
\* with depth >= max_depth, the first one or a recursive one, creates no
\* node.
C14_DepthBound ==
    walk.done =>
        /\ \A i \in DOMAIN walk.nodes :
              /\ walk.nodes[i].depth < walk.max_depth
              /\ walk.nodes[i].level = walk.nodes[i].depth - walk.depth + 1
        /\ walk.depth = 0 => \A i \in DOMAIN walk.nodes : walk.nodes[i].level <= walk.max_depth
        /\ walk.depth >= walk.max_depth => walk.nodes = <<>>

\* C14: a walk from depth 0 that went down to the bound and stopped there
\* above a container.
C14_Witness ==
    /\ walk.done
    /\ walk.depth = 0
    /\ walk.max_depth >= 2
    /\ \E i \in DOMAIN walk.nodes :
          /\ walk.nodes[i].level = walk.max_depth
          /\ walk.nodes[i].type = "list"
          /\ Len(walk.nodes[i].value.c) = 3
          /\ Under(walk.nodes, i) = {}

\* node i stands for the walked value itself, below the top of the walk.
Revisit(w, i) == w.nodes[i].value = Deref(w.heap, w.obj)

\* The largest number of entries a call iterates over.
Widest(w) ==
    LET sizes == {Len(Items(Deref(w.heap, w.obj), 0))}
                 \cup {Len(Items(w.heap[k], 0)) : k \in DOMAIN w.heap}
    IN CHOOSE n \in sizes : \A m \in sizes : m <= n

RECURSIVE Power(_, _)
Power(b, e) == IF e = 0 THEN 1 ELSE b * Power(b, e - 1)

RECURSIVE FullTree(_, _)
FullTree(b, levels) == IF levels <= 0 THEN 0 ELSE Power(b, levels) + FullTree(b, levels - 1)

\* C15: the walk of a value that contains itself ends: no call below
\* max_depth is made for it, so no node is created at depth max_depth or
\* more, and the nodes are at most those of a full tree of max_depth - depth
\* levels.
C15_SelfReferenceTerminates ==
    (walk.done /\ walk.heap # <<>>) =>
        /\ \A i \in DOMAIN walk.nodes : walk.nodes[i].depth < walk.max_depth
        /\ Len(walk.nodes) <= FullTree(Widest(walk), walk.max_depth - walk.depth)

\* C15: the walk of a value that contains itself met the value again at
\* two levels.
C15_Witness ==
    /\ walk.done
    /\ walk.heap # <<>>
    /\ \E i, j \in DOMAIN walk.nodes :
          /\ Revisit(walk, i)
          /\ Revisit(walk, j)
          /\ walk.nodes[i].level < walk.nodes[j].level

\* The walk of {a: 1, b: [2, 3]} with max_depth 2.
ExampleWalked ==
    /\ walk.done
    /\ walk.obj = ExampleMapping
    /\ walk.depth = 0
    /\ walk.max_depth = 2

\* The parts of the nodes the example speaks of.
Outline(nodes) ==
    [i \in DOMAIN nodes |->
        <<nodes[i].level, nodes[i].name, nodes[i].preview, nodes[i].value>>]

\* C19: the walk of {a: 1, b: [2, 3]} with max_depth 2 creates the nodes a
\* and b in that order; a has the preview 1 and nothing below it; b has the
\* two nodes of its elements 2 and 3 below it, which have nothing below them.
C19_ExampleMapping ==
    ExampleWalked =>
        Outline(walk.nodes) =
            << <<1, <<97>>, <<<<49>>>>, IntV(1)>>,
               <<1, <<98>>, <<>>, ListV(<<IntV(2), IntV(3)>>)>>,
               <<2, <<48>>, <<<<50>>>>, IntV(2)>>,
               <<2, <<49>>, <<<<51>>>>, IntV(3)>> >>

C19_Witness == ExampleWalked /\ Len(walk.nodes) = 4

\* C20: the node of a callable has nothing below it, and the walk of a
\* callable creates no node.
C20_CallablesAreLeaves ==
    walk.done =>
        /\ \A i \in DOMAIN walk.nodes :
              IsCallable(walk.nodes[i].value) => Under(walk.nodes, i) = {}
        /\ IsCallable(Deref(walk.heap, walk.obj)) => walk.nodes = <<>>

----------------------------------------------------------------------------
(* eval(obj_path) in on_object_selected, for the expressions the tree      *)
(* holds: the name self followed by attribute references and               *)
(* subscriptions with a literal.  A text that does not read this way is a  *)
(* syntax error.                                                           *)

EvalErr(e) == [ok |-> FALSE, exc |-> e, v |-> NoneV]

EvalOk(v) == [ok |-> TRUE, exc |-> "", v |-> v]

\* A character of an identifier.
IsNameChar(s, i) ==
    i <= Len(s) /\ (\/ s[i] >= 48 /\ s[i] <= 57
                    \/ s[i] >= 97 /\ s[i] <= 122
                    \/ s[i] >= 65 /\ s[i] <= 90
                    \/ s[i] = 95)

RECURSIVE NameEnd(_, _)
NameEnd(s, i) == IF IsNameChar(s, i) THEN NameEnd(s, i + 1) ELSE i

Scanned(v, i) == [ok |-> TRUE, v |-> v, i |-> i]

NotScanned == [ok |-> FALSE, v |-> NoneV, i |-> 0]

\* The characters of a string literal from s[i] to the closing quote q,
\* after acc: what they stand for, and the index after the quote.
RECURSIVE ScanQuoted(_, _, _, _)
ScanQuoted(s, i, q, acc) ==
    IF i > Len(s) \/ s[i] = 10 THEN NotScanned
    ELSE IF s[i] = q THEN Scanned(acc, i + 1)
    ELSE IF s[i] # 92 THEN ScanQuoted(s, i + 1, q, Append(acc, s[i]))
    ELSE IF i + 1 > Len(s) THEN NotScanned
    ELSE CASE s[i + 1] \in {92, 39, 34} -> ScanQuoted(s, i + 2, q, Append(acc, s[i + 1]))
           [] s[i + 1] = 110 -> ScanQuoted(s, i + 2, q, Append(acc, 10))
           [] s[i + 1] = 114 -> ScanQuoted(s, i + 2, q, Append(acc, 13))
           [] s[i + 1] = 116 -> ScanQuoted(s, i + 2, q, Append(acc, 9))
           [] s[i + 1] = 120 ->
                IF IsHex(s, i + 2) /\ IsHex(s, i + 3)
                THEN ScanQuoted(s, i + 4, q,
                                Append(acc, 16 * HexValue(s[i + 2]) + HexValue(s[i + 3])))
                ELSE NotScanned
           [] s[i + 1] = 117 ->
                IF Hex4(s, i + 2) >= 0
                THEN ScanQuoted(s, i + 6, q, Append(acc, Hex4(s, i + 2)))
                ELSE NotScanned
           [] OTHER -> ScanQuoted(s, i + 2, q, acc \o <<92, s[i + 1]>>)

\* The value of a scanned literal of type t.
Quoted(t, q) == IF q.ok THEN Scanned(V(t, 0, q.v, <<>>), q.i) ELSE NotScanned

\* The literal at s[i]: a string, a byte string, an integer, None, True or
\* False.
ScanLiteral(s, i) ==
    CASE i <= Len(s) /\ s[i] \in {39, 34} ->
            Quoted("str", ScanQuoted(s, i + 1, s[i], <<>>))
      [] i + 1 <= Len(s) /\ s[i] = 98 /\ s[i + 1] \in {39, 34} ->
            Quoted("bytes", ScanQuoted(s, i + 2, s[i + 1], <<>>))
      [] IsDigit(s, i) ->
            Scanned(IntV(DigitsValue(s, i, SkipDigits(s, i) - 1)), SkipDigits(s, i))
      [] i <= Len(s) /\ s[i] = 45 /\ IsDigit(s, i + 1) ->
            Scanned(IntV(0 - DigitsValue(s, i + 1, SkipDigits(s, i + 1) - 1)),
                    SkipDigits(s, i + 1))
      [] StartsWith(s, i, <<78, 111, 110, 101>>) /\ ~IsNameChar(s, i + 4) -> Scanned(NoneV, i + 4)
      [] StartsWith(s, i, <<84, 114, 117, 101>>) /\ ~IsNameChar(s, i + 4) -> Scanned(BoolV(TRUE), i + 4)
      [] StartsWith(s, i, <<70, 97, 108, 115, 101>>) /\ ~IsNameChar(s, i + 5) -> Scanned(BoolV(FALSE), i + 5)
      [] OTHER -> NotScanned

\* getattr(obj, name)
GetAttr(heap, obj, name) ==
    LET found == SelectSeq(Dir(obj), LAMBDA m : m.key.s = name) IN
    IF found = <<>> \/ found[1].v = Raises THEN EvalErr("AttributeError")
    ELSE EvalOk(Deref(heap, found[1].v))

\* obj[key]
GetItem(heap, obj, key) ==
    CASE obj.t = "dict" ->
            IF \E k \in 1..(Len(obj.c) \div 2) : obj.c[2 * k - 1] = key
            THEN EvalOk(Deref(heap, DictGet(obj, key)))
            ELSE IF Hashable(key) THEN EvalErr("KeyError") ELSE EvalErr("TypeError")
      [] obj.t \in {"list", "tuple"} ->
            IF key.t \notin {"int", "bool"} THEN EvalErr("TypeError")
            ELSE IF key.n >= 0 /\ key.n < Len(obj.c)
                THEN EvalOk(Deref(heap, obj.c[key.n + 1]))
            ELSE IF key.n < 0 /\ 0 - key.n <= Len(obj.c)
                THEN EvalOk(Deref(heap, obj.c[Len(obj.c) + key.n + 1]))
            ELSE EvalErr("IndexError")
      [] OTHER -> EvalErr("TypeError")

RECURSIVE EvalTrailers(_, _, _, _)

\* obj[literal] and the trailers after it.
EvalSubscript(heap, obj, s, lit) ==
    IF ~lit.ok \/ lit.i > Len(s) \/ s[lit.i] # 93 THEN EvalErr("SyntaxError")
    ELSE IF ~GetItem(heap, obj, lit.v).ok THEN GetItem(heap, obj, lit.v)
    ELSE EvalTrailers(heap, GetItem(heap, obj, lit.v).v, s, lit.i + 1)

\* obj.name and the trailers after it; name is s[i..j-1].
EvalAttribute(heap, obj, s, i, j) ==
    IF j = i \/ IsDigit(s, i) THEN EvalErr("SyntaxError")
    ELSE IF ~GetAttr(heap, obj, SubSeq(s, i, j - 1)).ok
        THEN GetAttr(heap, obj, SubSeq(s, i, j - 1))
    ELSE EvalTrailers(heap, GetAttr(heap, obj, SubSeq(s, i, j - 1)).v, s, j)

\* The value of the trailers s[i..] applied to obj.
EvalTrailers(heap, obj, s, i) ==
    IF i > Len(s) THEN EvalOk(obj)
    ELSE IF s[i] = 46 THEN EvalAttribute(heap, obj, s, i + 1, NameEnd(s, i + 1))
    ELSE IF s[i] = 91 THEN EvalSubscript(heap, obj, s, ScanLiteral(s, i + 1))
    ELSE EvalErr("SyntaxError")

\* eval(obj_path) where self is the value root.
Eval(heap, root, path) ==
    IF path = <<>> \/ NameEnd(path, 1) = 1 \/ IsDigit(path, 1) THEN EvalErr("SyntaxError")
    ELSE IF SubSeq(path, 1, NameEnd(path, 1) - 1) # <<115, 101, 108, 102>> THEN EvalErr("NameError")
    ELSE EvalTrailers(heap, root, path, 5)

----------------------------------------------------------------------------
(* The browser with its tree: started by main(), which hands no settings   *)
(* to the constructor.                                                     *)

\* max_depth of the two calls of populate_full_object_tree.
TreeMaxDepth == 6

\* What load_settings returns without a settings.json it can read.
FallbackSettings ==
    DictV(<<StrV(<<97, 100, 118, 97, 110, 99, 101, 100>>),
            DictV(<<StrV(<<101, 100, 105, 116, 111, 114, 95, 99, 111, 109, 109, 97, 110, 100>>), StrV(<<110, 111, 116, 101, 112, 97, 100, 32, 123, 102, 105, 108, 101, 110, 97, 109, 101, 125>>)>>)>>)

\* ObjectBrowser.load_settings: the parse of settings.json, the fallback
\* when there is no file or json.load raises.  j: what json.load made of the
\* file.
Parsed(j) == IF j.ok THEN j.v ELSE FallbackSettings

LoadSettings(file) ==
    IF file = NoSettingsFile THEN FallbackSettings ELSE Parsed(JsonLoads(file))

\* The names the user gives to loaded objects, and their text.
BrowseNames == {"it's"}

NameText(name) == IF name = "a" THEN <<97>> ELSE <<105, 116, 39, 115>>

\* The order in which the model lists the loaded objects.
NameOrder == <<"a", "it's">>

RECURSIVE StoreItems(_, _)
StoreItems(store, i) ==
    IF i > Len(NameOrder) THEN <<>>
    ELSE (IF NameOrder[i] \in DOMAIN store
          THEN <<StrV(NameText(NameOrder[i])), store[NameOrder[i]]>> ELSE <<>>)
         \o StoreItems(store, i + 1)

\* self.loaded_objects as a value.
StoreDict(store) == DictV(StoreItems(store, 1))

\* The inspected root: the browser with the members the model follows.
SelfV(g) ==
    ObjV("ObjectBrowser",
         <<StrV(<<108, 111, 97, 100, 101, 100, 95, 111, 98, 106, 101, 99, 116, 115>>), StoreDict(g.loaded_objects),
           StrV(<<114, 101, 108, 111, 97, 100, 95, 115, 101, 116, 116, 105, 110, 103, 115>>), Opaque("method"),
           StrV(<<115, 101, 116, 116, 105, 110, 103, 115>>), Settings(g.settings),
           StrV(<<119, 105, 110, 100, 111, 119>>), Opaque("Toplevel")>>)

\* A node populate_full_object_tree inserts itself.
TopNode(level, kind, name, path, value) ==
    [level |-> level, depth |-> 0, kind |-> kind, name |-> name, type |-> value.t,
     preview |-> <<>>, path |-> path, value |-> value]

\* f"self.loaded_objects['{name}']"
LoadedPathText(name) == <<115, 101, 108, 102, 46, 108, 111, 97, 100, 101, 100, 95, 111, 98, 106, 101, 99, 116, 115, 91, 39>> \o name \o <<39, 93>>

\* The node of the loaded object in items[i], and the nodes below it.
RECURSIVE LoadedNodes(_, _)
LoadedNodes(items, i) ==
    IF i > Len(items) THEN <<>>
    ELSE <<TopNode(1, "loaded", items[i].s, LoadedPathText(items[i].s), items[i + 1])>>
         \o EnumerateObject(<<>>, items[i + 1], 1, LoadedPathText(items[i].s), 0,
                            TreeMaxDepth)
         \o LoadedNodes(items, i + 2)

\* The "Loaded Objects" section: `if self.loaded_objects:`.
LoadedSection(d) ==
    IF d.c = <<>> THEN <<>>
    ELSE <<TopNode(0, "section", <<76, 111, 97, 100, 101, 100, 32, 79, 98, 106, 101, 99, 116, 115>>, <<115, 101, 108, 102, 46, 108, 111, 97, 100, 101, 100, 95, 111, 98, 106, 101, 99, 116, 115>>, d)>>
         \o LoadedNodes(d.c, 1)

\* populate_full_object_tree on the graph g: the nodes of the tree.
PopulateFullObjectTree(g) ==
    <<TopNode(0, "root", <<79, 98, 106, 101, 99, 116, 66, 114, 111, 119, 115, 101, 114, 32, 40, 115, 101, 108, 102, 41>>, <<115, 101, 108, 102>>, SelfV(g))>>
    \o EnumerateObject(<<>>, SelfV(g), 0, <<115, 101, 108, 102>>, 0, TreeMaxDepth)
    \o LoadedSection(StoreDict(g.loaded_objects))

\* A variant of Resolved that empties the selection when eval fails.
Resolved_Clears(r, obj, shown) ==
    IF r.ok THEN [obj |-> r.v, detail |-> r.v] ELSE [obj |-> NoneV, detail |-> NothingShown]

\* `try: obj = eval(obj_path); self.current_object = obj; ...` and
\* `except Exception`: the selected object and the views after it.
Resolved(r, obj, shown) ==
    IF r.ok THEN [obj |-> r.v, detail |-> r.v] ELSE [obj |-> obj, detail |-> shown]

\* What on_object_selected leaves behind: how eval ended.
SelectedWith(r) ==
    [Selected EXCEPT !.steps = IF r.ok THEN <<"eval", "show">> ELSE <<"eval">>,
                     !.attempts = IF r.ok THEN <<>> ELSE <<Attempt("eval", r.exc)>>]

\* on_object_selected with the node of the tree the user clicked.
SelectNode(node, r) ==
    /\ current_object_path' = node.path
    /\ current_object' = Resolved(r, current_object, detail).obj
    /\ detail' = Resolved(r, current_object, detail).detail
    /\ last' = SelectedWith(r)
    /\ UNCHANGED <<loaded_objects, fs, settings, tree, aside>>

OnObjectSelected ==
    LET nodes == PopulateFullObjectTree(tree)
        root == SelfV(Graph(settings, loaded_objects))
    IN \E i \in DOMAIN nodes : SelectNode(nodes[i], Eval(<<>>, root, nodes[i].path))

\* The Refresh button: populate_full_object_tree.
RefreshTree ==
    /\ tree' = Graph(settings, loaded_objects)
    /\ last' = [Blank EXCEPT !.op = "refresh"]
    /\ UNCHANGED <<current_object, current_object_path, loaded_objects, fs, settings,
                   detail, aside>>

\* filter_object_tree: an empty query repopulates the tree, another one
\* opens the matching nodes of the tree as it is.
FilterObjectTree ==
    \E query \in {"", "a"} :
        /\ tree' = IF query = "" THEN Graph(settings, loaded_objects) ELSE tree
        /\ last' = [Blank EXCEPT !.op = "filter", !.name = query]
        /\ UNCHANGED <<current_object, current_object_path, loaded_objects, fs,
                       settings, detail, aside>>

\* reload_settings with the settings load_settings gave, s, and the
\* command in them, c: when the lookup of the command raises, the settings
\* are the new ones, the command is the one it was and no box is shown.
Reloaded(s, c) ==
    /\ settings' = Built(s)
    /\ editor_command' = IF c.ok THEN c.v ELSE editor_command
    /\ last' = [Blank EXCEPT !.op = "reload_settings",
                             !.dialog = IF c.ok THEN "Settings Reloaded" ELSE ""]
    /\ UNCHANGED <<current_object, current_object_path, loaded_objects, fs, tree,
                   detail, settings_file, walk, document>>

ReloadedWith(s) == Reloaded(s, EditorCommandOf(s))

\* reload_settings
ReloadSettings == ReloadedWith(LoadSettings(settings_file))

\* The texts settings.json can hold: a document with an entry of its own.
BrowseSettingsFiles == { NoSettingsFile, <<123, 34, 114, 101, 99, 101, 110, 116, 34, 58, 32, 91, 34, 120, 34, 93, 125>> }

\* settings.json is written by the settings editor, or by hand.
SettingsFileChanges ==
    /\ settings_file' \in BrowseSettingsFiles \ {settings_file}
    /\ UNCHANGED <<current_object, current_object_path, loaded_objects, fs, last,
                   settings, tree, detail, walk, document, editor_command>>

\* The files the open dialog can return: a JSON document.
BrowseFiles == { File(<<91, 55, 93>>, 0) }

\* The loads of a file that can be read, under a name.
BrowseLoadPython == LoadObjectPythonAs(Files, {"ok"}, BrowseNames)

BrowseLoadBinary == LoadObjectBinaryAs(Files, {"ok"}, BrowseNames)

\* main(): ObjectBrowser() with the settings load_settings returns.
BrowseInit ==
    /\ current_object = NoneV
    /\ current_object_path = <<>>
    /\ loaded_objects = <<>>
    /\ fs \in [Files -> BrowseFiles]
    /\ last = Blank
    /\ settings_file \in BrowseSettingsFiles
    /\ settings = Built(LoadSettings(settings_file))
    /\ tree = Graph(settings, loaded_objects)
    /\ detail = NothingShown
    /\ walk = NoWalk
    /\ document = NoneV
    /\ editor_command = EditorCommandOf(Settings(settings)).v

BrowseNext ==
    \/ OnObjectSelected
    \/ RefreshTree
    \/ FilterObjectTree
    \/ ReloadSettings
    \/ SettingsFileChanges
    \/ BrowseLoadPython
    \/ BrowseLoadBinary

BrowseSpec == BrowseInit /\ [][BrowseNext]_vars

----------------------------------------------------------------------------
(* Properties of the browser with its tree.                                *)

TreeIsCurrent == tree = Graph(settings, loaded_objects)

\* C16: while the graph is the one the tree was populated from, the path of
\* every node of the tree evaluates to the value the node was created from.
C16_PathRoundTrip ==
    TreeIsCurrent =>
        \A i \in DOMAIN PopulateFullObjectTree(tree) :
            Eval(<<>>, SelfV(tree), PopulateFullObjectTree(tree)[i].path)
                = EvalOk(PopulateFullObjectTree(tree)[i].value)

\* The exceptions `except Exception` catches.
CaughtByException ==
    {"SyntaxError", "NameError", "AttributeError", "KeyError", "IndexError", "TypeError"}

\* The last handler was on_object_selected and its eval raised.
SelectFailed(rep) == rep.op = "select" /\ rep.steps = <<"eval">>

\* C17: when eval of the selected node's path raises, on_object_selected
\* catches the exception, and the selected object and the detail views are
\* what they were.
C17_FailedSelectionKeepsViews ==
    [][SelectFailed(last') =>
        /\ last'.attempts[1].exc \in CaughtByException
        /\ current_object' = current_object
        /\ detail' = detail]_vars

\* C17: the selection of a node whose path is stale (its key is gone from
\* the reloaded settings) failed while the views showed a loaded object.
C17_Witness ==
    /\ SelectFailed(last)
    /\ last.attempts[1].exc = "KeyError"
    /\ detail = ListV(<<IntV(7)>>)
    /\ current_object = detail

----------------------------------------------------------------------------
(* The settings editor: SettingsWindow.load_settings, which merges the     *)
(* defaults into the document of settings.json.                            *)

\* default_settings
DefaultSettings ==
    DictV(<<
          StrV(<<98, 114, 111, 119, 115, 101, 114>>),   \* browser
          DictV(<<
                  StrV(<<109, 97, 120, 95, 100, 101, 112, 116, 104>>),   \* max_depth
                  IntV(6),
                  StrV(<<115, 104, 111, 119, 95, 112, 114, 105, 118, 97, 116, 101>>),   \* show_private
                  BoolV(FALSE),
                  StrV(<<115, 104, 111, 119, 95, 109, 97, 103, 105, 99>>),   \* show_magic
                  BoolV(TRUE),
                  StrV(<<101, 120, 112, 97, 110, 100, 95, 111, 110, 95, 115, 101, 108, 101, 99, 116>>),   \* expand_on_select
                  BoolV(TRUE),
                  StrV(<<97, 117, 116, 111, 95, 114, 101, 102, 114, 101, 115, 104>>),   \* auto_refresh
                  BoolV(FALSE),
                  StrV(<<115, 101, 97, 114, 99, 104, 95, 99, 97, 115, 101, 95, 115, 101, 110, 115, 105, 116, 105, 118, 101>>),   \* search_case_sensitive
                  BoolV(FALSE)>>),
          StrV(<<100, 105, 115, 112, 108, 97, 121>>),   \* display
          DictV(<<
                  StrV(<<116, 104, 101, 109, 101>>),   \* theme
                  StrV(<<100, 101, 102, 97, 117, 108, 116>>),
                  StrV(<<102, 111, 110, 116, 95, 102, 97, 109, 105, 108, 121>>),   \* font_family
                  StrV(<<67, 111, 117, 114, 105, 101, 114>>),
                  StrV(<<102, 111, 110, 116, 95, 115, 105, 122, 101>>),   \* font_size
                  IntV(10),
                  StrV(<<116, 114, 101, 101, 95, 102, 111, 110, 116, 95, 115, 105, 122, 101>>),   \* tree_font_size
                  IntV(9),
                  StrV(<<119, 105, 110, 100, 111, 119, 95, 119, 105, 100, 116, 104>>),   \* window_width
                  IntV(1400),
                  StrV(<<119, 105, 110, 100, 111, 119, 95, 104, 101, 105, 103, 104, 116>>),   \* window_height
                  IntV(900),
                  StrV(<<115, 116, 97, 116, 117, 115, 95, 98, 97, 114, 95, 118, 105, 115, 105, 98, 108, 101>>),   \* status_bar_visible
                  BoolV(TRUE),
                  StrV(<<108, 105, 110, 101, 95, 110, 117, 109, 98, 101, 114, 115>>),   \* line_numbers
                  BoolV(FALSE)>>),
          StrV(<<101, 100, 105, 116, 111, 114>>),   \* editor
          DictV(<<
                  StrV(<<101, 100, 105, 116, 111, 114, 95, 99, 111, 109, 109, 97, 110, 100>>),   \* editor_command
                  StrV(<<110, 111, 116, 101, 112, 97, 100, 32, 123, 102, 105, 108, 101, 110, 97, 109, 101, 125>>),
                  StrV(<<115, 121, 110, 116, 97, 120, 95, 104, 105, 103, 104, 108, 105, 103, 104, 116, 105, 110, 103>>),   \* syntax_highlighting
                  BoolV(TRUE),
                  StrV(<<119, 111, 114, 100, 95, 119, 114, 97, 112>>),   \* word_wrap
                  BoolV(FALSE),
                  StrV(<<116, 97, 98, 95, 115, 105, 122, 101>>),   \* tab_size
                  IntV(4),
                  StrV(<<97, 117, 116, 111, 95, 105, 110, 100, 101, 110, 116>>),   \* auto_indent
                  BoolV(TRUE)>>),
          StrV(<<112, 101, 114, 115, 105, 115, 116, 101, 110, 99, 101>>),   \* persistence
          DictV(<<
                  StrV(<<97, 117, 116, 111, 95, 115, 97, 118, 101, 95, 108, 111, 97, 100, 101, 100, 95, 111, 98, 106, 101, 99, 116, 115>>),   \* auto_save_loaded_objects
                  BoolV(FALSE),
                  StrV(<<108, 111, 97, 100, 101, 100, 95, 111, 98, 106, 101, 99, 116, 115, 95, 102, 105, 108, 101>>),   \* loaded_objects_file
                  StrV(<<108, 111, 97, 100, 101, 100, 95, 111, 98, 106, 101, 99, 116, 115, 46, 112, 107, 108>>),
                  StrV(<<114, 101, 109, 101, 109, 98, 101, 114, 95, 119, 105, 110, 100, 111, 119, 95, 112, 111, 115, 105, 116, 105, 111, 110>>),   \* remember_window_position
                  BoolV(TRUE),
                  StrV(<<109, 97, 120, 95, 114, 101, 99, 101, 110, 116, 95, 102, 105, 108, 101, 115>>),   \* max_recent_files
                  IntV(10),
                  StrV(<<112, 105, 99, 107, 108, 101, 95, 112, 114, 111, 116, 111, 99, 111, 108>>),   \* pickle_protocol
                  IntV(4)>>),
          StrV(<<97, 100, 118, 97, 110, 99, 101, 100>>),   \* advanced
          DictV(<<
                  StrV(<<100, 101, 98, 117, 103, 95, 109, 111, 100, 101>>),   \* debug_mode
                  BoolV(FALSE),
                  StrV(<<108, 111, 103, 95, 102, 105, 108, 101>>),   \* log_file
                  StrV(<<111, 98, 106, 101, 99, 116, 95, 98, 114, 111, 119, 115, 101, 114, 46, 108, 111, 103>>),
                  StrV(<<101, 110, 97, 98, 108, 101, 95, 108, 111, 103, 103, 105, 110, 103>>),   \* enable_logging
                  BoolV(FALSE),
                  StrV(<<112, 101, 114, 102, 111, 114, 109, 97, 110, 99, 101, 95, 109, 111, 100, 101>>),   \* performance_mode
                  BoolV(FALSE),
                  StrV(<<108, 97, 114, 103, 101, 95, 102, 105, 108, 101, 95, 119, 97, 114, 110, 105, 110, 103, 95, 109, 98>>),   \* large_file_warning_mb
                  IntV(100),
                  StrV(<<109, 101, 109, 111, 114, 121, 95, 108, 105, 109, 105, 116, 95, 109, 98>>),   \* memory_limit_mb
                  IntV(500)>>),
          StrV(<<99, 111, 108, 111, 114, 115>>),   \* colors
          DictV(<<
                  StrV(<<98, 97, 99, 107, 103, 114, 111, 117, 110, 100>>),   \* background
                  StrV(<<119, 104, 105, 116, 101>>),
                  StrV(<<102, 111, 114, 101, 103, 114, 111, 117, 110, 100>>),   \* foreground
                  StrV(<<98, 108, 97, 99, 107>>),
                  StrV(<<107, 101, 121, 119, 111, 114, 100, 95, 99, 111, 108, 111, 114>>),   \* keyword_color
                  StrV(<<98, 108, 117, 101>>),
                  StrV(<<115, 116, 114, 105, 110, 103, 95, 99, 111, 108, 111, 114>>),   \* string_color
                  StrV(<<103, 114, 101, 101, 110>>),
                  StrV(<<99, 111, 109, 109, 101, 110, 116, 95, 99, 111, 108, 111, 114>>),   \* comment_color
                  StrV(<<103, 114, 97, 121>>),
                  StrV(<<102, 117, 110, 99, 116, 105, 111, 110, 95, 99, 111, 108, 111, 114>>),   \* function_color
                  StrV(<<112, 117, 114, 112, 108, 101>>),
                  StrV(<<115, 101, 108, 101, 99, 116, 105, 111, 110, 95, 98, 103>>),   \* selection_bg
                  StrV(<<108, 105, 103, 104, 116, 98, 108, 117, 101>>),
                  StrV(<<101, 114, 114, 111, 114, 95, 99, 111, 108, 111, 114>>),   \* error_color
                  StrV(<<114, 101, 100>>)>>)>>)

\* key in d, for a mapping d.
Has(d, key) == \E k \in 1..(Len(d.c) \div 2) : d.c[2 * k - 1] = key

\* The keys of a mapping.
Keys(d) == {d.c[2 * k - 1] : k \in 1..(Len(d.c) \div 2)}

\* text[i..] holds the word w somewhere.
RECURSIVE Substring(_, _, _)
Substring(text, w, i) ==
    IF i + Len(w) - 1 > Len(text) THEN FALSE
    ELSE StartsWith(text, i, w) \/ Substring(text, w, i + 1)

\* `key not in v`, for the value v of a category: the test itself raises
\* TypeError for a value that is no container.
Lacks(v, key) ==
    CASE v.t = "dict" -> [ok |-> TRUE, lacks |-> ~Has(v, key)]
      [] v.t \in {"list", "tuple"} ->
            [ok |-> TRUE, lacks |-> \A k \in DOMAIN v.c : v.c[k] # key]
      [] v.t = "str" -> [ok |-> TRUE, lacks |-> ~Substring(v.s, key.s, 1)]
      [] OTHER -> [ok |-> FALSE, lacks |-> FALSE]

Merged(v) == [ok |-> TRUE, v |-> v]

MergeFailed == [ok |-> FALSE, v |-> NoneV]

\* A variant of SetDefault that puts the default over a value that is there.
SetDefault_Always(v, key, default_val) ==
    IF v.t = "dict" THEN Merged(DictV(DictSet(v.c, key, default_val))) ELSE MergeFailed

\* `if key not in loaded[category]: loaded[category][key] = default_val`:
\* the assignment raises TypeError for a value that is no mapping.
SetDefaultWhere(test, v, key, default_val) ==
    IF ~test.ok THEN MergeFailed
    ELSE IF ~test.lacks THEN Merged(v)
    ELSE IF v.t = "dict" THEN Merged(DictV(DictSet(v.c, key, default_val)))
    ELSE MergeFailed

SetDefault(v, key, default_val) == SetDefaultWhere(Lacks(v, key), v, key, default_val)

\* `for key, default_val in values.items()` from the i-th item of the
\* defaults on, for the category value v.
RECURSIVE MergeKeys(_, _, _)
MergeKeysAfter(m, values, i) == IF m.ok THEN MergeKeys(m.v, values, i) ELSE MergeFailed

MergeKeys(v, values, i) ==
    IF i > Len(values) THEN Merged(v)
    ELSE MergeKeysAfter(SetDefault(v, values[i], values[i + 1]), values, i + 2)

\* One turn of `for category, values in default_settings.items()`: m is the
\* category's value after the merge of its keys.
PutMerged(loaded, category, m) ==
    IF m.ok THEN Merged(DictV(DictSet(loaded.c, category, m.v))) ELSE MergeFailed

MergeCategory(loaded, category, values) ==
    IF ~Has(loaded, category) THEN Merged(DictV(DictSet(loaded.c, category, values)))
    ELSE PutMerged(loaded, category, MergeKeys(DictGet(loaded, category), values.c, 1))

RECURSIVE MergeCategories(_, _, _)
MergeCategoriesAfter(m, defaults, i) ==
    IF m.ok THEN MergeCategories(m.v, defaults, i) ELSE MergeFailed

MergeCategories(loaded, defaults, i) ==
    IF i > Len(defaults) THEN Merged(loaded)
    ELSE MergeCategoriesAfter(MergeCategory(loaded, defaults[i], defaults[i + 1]),
                              defaults, i + 2)

\* The merge loop on what json.load returned: `category not in loaded` and
\* `loaded[category] = values` need a mapping.
MergeDefaults(loaded) ==
    IF loaded.t # "dict" THEN MergeFailed
    ELSE MergeCategories(loaded, DefaultSettings.c, 1)

\* The end of load_settings: the merged document, or the "Settings Error"
\* box and the defaults.
MergeResult(m) ==
    IF m.ok THEN [doc |-> m.v, dialog |-> ""]
    ELSE [doc |-> DefaultSettings, dialog |-> "Settings Error"]

ParsedDocument(j) == IF j.ok THEN MergeResult(MergeDefaults(j.v)) ELSE MergeResult(MergeFailed)

\* SettingsWindow.load_settings
WindowLoadSettings(file) ==
    IF file = NoSettingsFile THEN [doc |-> DefaultSettings, dialog |-> ""]
    ELSE ParsedDocument(JsonLoads(file))

\* The categories of the documents of the model: three of the defaults and
\* one the defaults do not know.
SampleCategories == <<<<98, 114, 111, 119, 115, 101, 114>>, <<97, 100, 118, 97, 110, 99, 101, 100>>, <<99, 111, 108, 111, 114, 115>>, <<112, 108, 117, 103, 105, 110, 115>>>>

\* What a document holds for its i-th category: nothing, one key of the
\* defaults with a value of its own, or a key of its own.
SampleValues(i) ==
    { DictV(<<>>),
      DictV(<<StrV(CASE i = 1 -> <<109, 97, 120, 95, 100, 101, 112, 116, 104>>
                     [] i = 2 -> <<108, 97, 114, 103, 101, 95, 102, 105, 108, 101, 95, 119, 97, 114, 110, 105, 110, 103, 95, 109, 98>>
                     [] i = 3 -> <<98, 97, 99, 107, 103, 114, 111, 117, 110, 100>>
                     [] OTHER -> <<112, 97, 116, 104>>),
              IntV(10 + i)>>),
      DictV(<<StrV(<<101, 120, 116, 114, 97>>), ListV(<<IntV(i)>>)>>) }

\* The documents with the categories cats[i..].
RECURSIVE Documents(_)
Documents(i) ==
    IF i > Len(SampleCategories) THEN {<<>>}
    ELSE Documents(i + 1)
         \cup { <<StrV(SampleCategories[i]), v>> \o rest :
                  v \in SampleValues(i), rest \in Documents(i + 1) }

\* Texts of settings.json that hold no document: no JSON, no mapping, and
\* a category that is no mapping.
NoDocuments == { <<123, 34, 98, 114, 111, 119, 115, 101, 114, 34, 58, 32>>, <<91, 49, 93>>, <<123, 34, 98, 114, 111, 119, 115, 101, 114, 34, 58, 32, 53, 44, 32, 34, 99, 111, 108, 111, 114, 115, 34, 58, 32, 123, 34, 98, 97, 99, 107, 103, 114, 111, 117, 110, 100, 34, 58, 32, 34, 110, 97, 118, 121, 34, 125, 125>> }

\* The texts settings.json can hold: every document as json.dumps writes
\* it, and the texts that hold none.
SettingsFiles ==
    {NoSettingsFile} \cup NoDocuments \cup {JsonDumps(DictV(c)).s : c \in Documents(1)}

SettingsInit ==
    /\ current_object = NoneV
    /\ current_object_path = <<>>
    /\ loaded_objects = <<>>
    /\ fs = [f \in Files |-> NoFile]
    /\ last = Blank
    /\ settings = Given
    /\ tree = Graph(settings, loaded_objects)
    /\ detail = NothingShown
    /\ walk = NoWalk
    /\ settings_file \in SettingsFiles
    /\ document = NoneV
    /\ editor_command = EditorCommandOf(Settings(settings)).v

\* SettingsWindow.__init__: self.settings = self.load_settings()
Opened(r) ==
    /\ document' = r.doc
    /\ last' = [Blank EXCEPT !.op = "settings_window", !.dialog = r.dialog]
    /\ UNCHANGED <<current_object, current_object_path, loaded_objects, fs, settings,
                   tree, detail, walk, settings_file, editor_command>>

OpenSettingsWindow ==
    /\ document = NoneV
    /\ Opened(WindowLoadSettings(settings_file))

SettingsNext == OpenSettingsWindow

SettingsSpec == SettingsInit /\ [][SettingsNext]_vars

\* A document: a mapping whose categories are mappings.
IsDocument(v) ==
    /\ v.t = "dict"
    /\ \A k \in 1..(Len(v.c) \div 2) : v.c[2 * k].t = "dict"

\* The settings editor has loaded settings.json, and what json.load gave
\* for it, j, is a document.
DocumentLoaded(j) ==
    /\ last.op = "settings_window"
    /\ settings_file # NoSettingsFile
    /\ j.ok
    /\ IsDocument(j.v)

\* What json.load gives for settings.json.
Persisted == IF settings_file = NoSettingsFile THEN JsonLoads(<<>>) ELSE JsonLoads(settings_file)

\* The effective document d has everything of the document p, and every
\* key of the defaults that p lacks with its default value.
MergeOf(d, p) ==
    /\ \A c \in Keys(p) :
          /\ Has(d, c)
          /\ \A k \in Keys(DictGet(p, c)) :
                /\ Has(DictGet(d, c), k)
                /\ DictGet(DictGet(d, c), k) = DictGet(DictGet(p, c), k)
          /\ ~Has(DefaultSettings, c) => DictGet(d, c) = DictGet(p, c)
    /\ \A c \in Keys(DefaultSettings) :
          /\ Has(d, c)
          /\ \A k \in Keys(DictGet(DefaultSettings, c)) :
                /\ Has(DictGet(d, c), k)
                /\ ~(Has(p, c) /\ Has(DictGet(p, c), k)) =>
                      DictGet(DictGet(d, c), k) = DictGet(DictGet(DefaultSettings, c), k)
    /\ \A c \in Keys(d) :
          /\ Has(p, c) \/ Has(DefaultSettings, c)
          /\ \A k \in Keys(DictGet(d, c)) :
                \/ Has(p, c) /\ Has(DictGet(p, c), k)
                \/ Has(DefaultSettings, c) /\ Has(DictGet(DefaultSettings, c), k)

\* What C18 says of the editor's document, for what json.load gave, j.
ConfigMerge(j) ==
    DocumentLoaded(j) =>
        /\ last.dialog = ""
        /\ MergeOf(document, j.v)

\* C18: the effective document of a persisted document has every key of
\* the defaults, with the default value where the persisted document lacks
\* the category or the key; every value the persisted document defines, and
\* every key and category the defaults do not know, is in it as it was; and
\* nothing else is in it.
C18_ConfigMerge == ConfigMerge(Persisted)

\* C18: a document without the category colors, with a value of its own
\* for browser.max_depth and with a category the defaults do not know.
LacksColors(j) == DocumentLoaded(j) /\ ~Has(j.v, StrV(<<99, 111, 108, 111, 114, 115>>))

C18_Witness ==
    /\ LacksColors(Persisted)
    /\ Has(document, StrV(<<99, 111, 108, 111, 114, 115>>))
    /\ DictGet(DictGet(document, StrV(<<98, 114, 111, 119, 115, 101, 114>>)), StrV(<<109, 97, 120, 95, 100, 101, 112, 116, 104>>)) = IntV(11)
    /\ DictGet(DictGet(document, StrV(<<99, 111, 108, 111, 114, 115>>)), StrV(<<98, 97, 99, 107, 103, 114, 111, 117, 110, 100>>)) = StrV(<<119, 104, 105, 116, 101>>)
    /\ Has(DictGet(document, StrV(<<112, 108, 117, 103, 105, 110, 115>>)), StrV(<<101, 120, 116, 114, 97>>))

----------------------------------------------------------------------------
(* What the walker does with the entries of a composite.                   *)

\* The nodes below node i, in the order of the walk.
BelowNode(nodes, i) == SubSeq(nodes, i + 1, i + Cardinality(Under(nodes, i)))

\* What a call of _enumerate_object for the value of node n, one level
\* deeper than the call that made n, inserts below n.
Expansion(w, n) ==
    EnumerateObject(w.heap, n.value, n.level, n.path, n.depth + 1, w.max_depth)

\* The value is no scalar, not None and not callable.
Composite(v) == ~IsScalar(v) /\ v.t # "NoneType" /\ ~IsCallable(v)

\* The value has entries or an attribute dictionary.
Structured(v) == v.t \in {"dict", "list", "tuple"} \/ HasDict(v)

\* The original statement of C21: below the node of every member that is
\* no scalar, not None and not callable are the nodes of its own
\* expansion, whatever the type of the member.
C21_EveryCompositeMemberExpanded ==
    walk.done =>
        \A i \in DOMAIN walk.nodes :
            (walk.nodes[i].kind = "attr" /\ Composite(walk.nodes[i].value)) =>
                BelowNode(walk.nodes, i) = Expansion(walk, walk.nodes[i])

\* C21: below the node of a member that is no scalar, not None and not
\* callable are the nodes of its own expansion when the member is a
\* mapping, a list, a tuple or has an attribute dictionary; a member of
\* another type (a set, a byte string) has nothing below its node.  The
\* value of a mapping entry or of a sequence element that is no scalar and
\* not None is expanded whatever its type.
C21_StructuredMembersExpanded ==
    walk.done =>
        \A i \in DOMAIN walk.nodes :
            /\ (walk.nodes[i].kind = "attr" /\ Composite(walk.nodes[i].value)) =>
                  BelowNode(walk.nodes, i) =
                      IF Structured(walk.nodes[i].value)
                      THEN Expansion(walk, walk.nodes[i]) ELSE <<>>
            /\ (walk.nodes[i].kind # "attr" /\ ~IsScalar(walk.nodes[i].value)
                  /\ walk.nodes[i].value.t # "NoneType") =>
                  BelowNode(walk.nodes, i) = Expansion(walk, walk.nodes[i])

\* C21: a walk that went below a member with an attribute dictionary and
\* left a set member a leaf although the depth bound allowed its expansion.
C21_Witness ==
    /\ walk.done
    /\ \E i, j \in DOMAIN walk.nodes :
          /\ walk.nodes[i].kind = "attr"
          /\ walk.nodes[i].type = "Node"
          /\ Under(walk.nodes, i) # {}
          /\ walk.nodes[j].kind = "attr"
          /\ walk.nodes[j].type = "set"
          /\ Expansion(walk, walk.nodes[j]) # <<>>
          /\ Under(walk.nodes, j) = {}

\* What the loop of a call for obj at `depth` goes over, the entries that
\* cannot be read included.
Entries(obj, depth) ==
    IF obj.t \in {"dict", "list", "tuple"} THEN Items(obj, depth)
    ELSE SelectSeq(Dir(obj), LAMBDA m : ~(depth > 0 /\ m.key.s # <<>> /\ m.key.s[1] = 95))

\* Reading the entry raises: getattr of the member, or str() of the key.
Fails(it) ==
    \/ it.kind = "attr" /\ it.v = Raises
    \/ it.kind = "key" /\ it.key = Unprintable

\* The names of the entries of obj that can be read, in the order of the
\* enumeration.
Readable(obj, depth) ==
    LET ok == SelectSeq(Entries(obj, depth), LAMBDA it : ~Fails(it))
    IN [k \in DOMAIN ok |->
           IF ok[k].kind = "index" THEN NumberStr(ok[k].key) ELSE Str(ok[k].key)]

\* The names of the nodes at `level` among nodes.
NamesAt(nodes, level) ==
    LET at == SelectSeq(nodes, LAMBDA n : n.level = level)
    IN [k \in DOMAIN at |-> at[k].name]

\* node n is one the walker expands: a mapping, or an object with an
\* attribute dictionary that is not callable, above the depth bound.
Expanded(w, n) ==
    /\ n.depth + 1 < w.max_depth
    /\ n.value.t = "dict" \/ (HasDict(n.value) /\ ~IsCallable(n.value))

\* C22: a call of _enumerate_object creates the node of every entry that
\* can be read, before and after an entry whose reading raises, and only
\* the entries whose reading raises have no node.
C22_OnlyFailingEntryOmitted ==
    walk.done =>
        /\ ~AtDepthBound(walk.depth, walk.max_depth) =>
              NamesAt(walk.nodes, 1) = Readable(Deref(walk.heap, walk.obj), walk.depth)
        /\ \A i \in DOMAIN walk.nodes :
              Expanded(walk, walk.nodes[i]) =>
                  NamesAt(BelowNode(walk.nodes, i), walk.nodes[i].level + 1)
                      = Readable(walk.nodes[i].value, walk.nodes[i].depth + 1)

\* The part of C22 on members: the same, for the calls that go over the
\* members of an object.
MembersOnlyFailingOmitted ==
    walk.done =>
        /\ (~AtDepthBound(walk.depth, walk.max_depth)
              /\ Deref(walk.heap, walk.obj).t \notin {"dict", "list", "tuple"}) =>
              NamesAt(walk.nodes, 1) = Readable(Deref(walk.heap, walk.obj), walk.depth)
        /\ \A i \in DOMAIN walk.nodes :
              (Expanded(walk, walk.nodes[i]) /\ walk.nodes[i].value.t # "dict") =>
                  NamesAt(BelowNode(walk.nodes, i), walk.nodes[i].level + 1)
                      = Readable(walk.nodes[i].value, walk.nodes[i].depth + 1)

\* attr_name.startswith('_')
Private(name) == name # <<>> /\ name[1] = 95

\* The elements of a sequence.
Range(seq) == {seq[k] : k \in DOMAIN seq}

\* What C23 says of one call, for obj at `depth`, that created the nodes
\* with `names`: a member that can be read has its node unless depth > 0
\* and its name begins with '_', and then it has none; the key of a
\* mapping that begins with '_' has its node at every depth.
SkipsPrivate(obj, depth, names) ==
    IF obj.t \in {"dict", "list", "tuple"}
    THEN \A k \in DOMAIN Items(obj, depth) :
            (\A j \in 1..k : ~Fails(Items(obj, depth)[j])) =>
                (IF Items(obj, depth)[k].kind = "index"
                 THEN NumberStr(Items(obj, depth)[k].key)
                 ELSE Str(Items(obj, depth)[k].key)) \in Range(names)
    ELSE \A k \in DOMAIN Dir(obj) :
            Dir(obj)[k].v # Raises =>
                (Dir(obj)[k].key.s \in Range(names)
                    <=> ~(depth > 0 /\ Private(Dir(obj)[k].key.s)))

\* C23: the names beginning with '_' are skipped among the members in
\* every call with depth > 0 and are not skipped in a call with depth 0;
\* the keys of a mapping and the indices of a sequence are not skipped.
C23_PrivateSkippedBelowRoot ==
    walk.done =>
        /\ ~AtDepthBound(walk.depth, walk.max_depth) =>
              SkipsPrivate(Deref(walk.heap, walk.obj), walk.depth, NamesAt(walk.nodes, 1))
        /\ \A i \in DOMAIN walk.nodes :
              (Expanded(walk, walk.nodes[i]) \/
               (walk.nodes[i].depth + 1 < walk.max_depth
                  /\ walk.nodes[i].value.t \in {"list", "tuple"})) =>
                  SkipsPrivate(walk.nodes[i].value, walk.nodes[i].depth + 1,
                               NamesAt(BelowNode(walk.nodes, i), walk.nodes[i].level + 1))

\* C23: a walk from depth 0 that created the node of the member _hidden of
\* the root, skipped the member _x of a member of the root and created the
\* node of its member y.
C23_Witness ==
    /\ walk.done
    /\ walk.depth = 0
    /\ \E i, j, k \in DOMAIN walk.nodes :
          /\ walk.nodes[i].level = 1
          /\ walk.nodes[i].name = <<95, 104, 105, 100, 100, 101, 110>>
          /\ walk.nodes[j].level = 1
          /\ walk.nodes[j].name = <<99, 104, 105, 108, 100>>
          /\ Has(walk.nodes[j].value, StrV(<<95, 120>>))
          /\ k \in Under(walk.nodes, j)
          /\ walk.nodes[k].name = <<121>>
          /\ \A n \in Under(walk.nodes, j) : walk.nodes[n].name # <<95, 120>>

\* A walk of a mapping that created the node of the key _j one level down.
PrivateKeyListed ==
    /\ walk.done
    /\ \E i \in DOMAIN walk.nodes :
          /\ walk.nodes[i].level = 2
          /\ walk.nodes[i].kind = "key"
          /\ walk.nodes[i].name = <<95, 106>>

----------------------------------------------------------------------------
(* The members view, populate_members, of the value the detail views show. *)

\* attr_name.startswith('__') and attr_name.endswith('__')
Magic(name) ==
    /\ Len(name) >= 2
    /\ name[1] = 95 /\ name[2] = 95
    /\ name[Len(name) - 1] = 95 /\ name[Len(name)] = 95

\* The row of a member: the section it is inserted under, its name (the
\* text of the row is the name, with the signature after it for a
\* callable), its type and its second value.
Row(section, m, value) == [section |-> section, name |-> m.key.s, type |-> m.v.t, value |-> value]

\* The second value of a row: the words "method" and "magic method", the
\* first 100 characters of repr(value), or the type between < and >.
Fixed(word) == [is |-> word, text |-> <<>>]

\* value_preview
ValuePreview(v) ==
    IF IsScalar(v) THEN [is |-> "repr", text |-> Take(Repr(v), 100)]
    ELSE [is |-> "type", text |-> <<>>]

\* A variant of MemberRow that puts every callable under Methods.
MemberRow_NoMagic(m) ==
    IF IsCallable(m.v) THEN Row("Methods", m, Fixed("method"))
    ELSE IF Magic(m.key.s) THEN Row("Special/Magic", m, ValuePreview(m.v))
    ELSE Row("Properties", m, ValuePreview(m.v))

\* The body of the loop of populate_members for a member that getattr
\* gave: the row it inserts.
MemberRow(m) ==
    IF IsCallable(m.v)
    THEN IF Magic(m.key.s) THEN Row("Special/Magic", m, Fixed("magic method"))
         ELSE Row("Methods", m, Fixed("method"))
    ELSE IF Magic(m.key.s) THEN Row("Special/Magic", m, ValuePreview(m.v))
         ELSE Row("Properties", m, ValuePreview(m.v))

RECURSIVE MemberRows(_, _)
MemberRows(members, i) ==
    IF i > Len(members) THEN <<>>
    ELSE (IF members[i].v = Raises THEN <<>> ELSE <<MemberRow(members[i])>>)
         \o MemberRows(members, i + 1)

\* populate_members(obj): the rows of the members tree, in the order of
\* their insertion.
PopulateMembers(obj) == MemberRows(Dir(obj), 1)

\* The values whose members are looked at.
MemberInputs == {r.obj : r \in {w \in WalkInputs : w.heap = <<>>}}

\* A browser with one loaded object.
MembersInit ==
    /\ current_object = NoneV
    /\ current_object_path = <<>>
    /\ loaded_objects \in {[n \in Names |-> v] : v \in MemberInputs}
    /\ fs = [f \in Files |-> NoFile]
    /\ last = Blank
    /\ settings = Given
    /\ tree = Graph(settings, loaded_objects)
    /\ detail = NothingShown
    /\ settings_file = NoSettingsFile
    /\ walk = NoWalk
    /\ document = NoneV
    /\ editor_command = EditorCommandOf(Settings(settings)).v

MembersNext == SelectLoaded

MembersSpec == MembersInit /\ [][MembersNext]_vars

\* The category of a row.
Category(row) ==
    CASE row.section = "Methods" -> "callable"
      [] row.section = "Properties" -> "property"
      [] row.section = "Special/Magic" /\ row.value.is = "magic method" -> "reservedCallable"
      [] OTHER -> "reservedProperty"

\* The rows of the member `name`.
RowsOf(rows, name) == {k \in DOMAIN rows : rows[k].name = name}

\* C24: every member of the selected value that can be read has exactly
\* one row in the members view: a callable one is callable, or
\* reservedCallable when its name is __x__; another one is property, or
\* reservedProperty when its name is __x__.  A member that cannot be read
\* has no row, and the members after it have theirs.
C24_MembersCategorised ==
    detail # NothingShown =>
        /\ \A k \in DOMAIN Dir(detail) :
              IF Dir(detail)[k].v = Raises
              THEN RowsOf(PopulateMembers(detail), Dir(detail)[k].key.s) = {}
              ELSE /\ Cardinality(RowsOf(PopulateMembers(detail), Dir(detail)[k].key.s)) = 1
                   /\ \A j \in RowsOf(PopulateMembers(detail), Dir(detail)[k].key.s) :
                         Category(PopulateMembers(detail)[j]) =
                             CASE IsCallable(Dir(detail)[k].v) /\ Magic(Dir(detail)[k].key.s)
                                      -> "reservedCallable"
                               [] IsCallable(Dir(detail)[k].v) /\ ~Magic(Dir(detail)[k].key.s)
                                      -> "callable"
                               [] ~IsCallable(Dir(detail)[k].v) /\ Magic(Dir(detail)[k].key.s)
                                      -> "reservedProperty"
                               [] OTHER -> "property"
        /\ \A j \in DOMAIN PopulateMembers(detail) :
              \E k \in DOMAIN Dir(detail) :
                  Dir(detail)[k].key.s = PopulateMembers(detail)[j].name

\* C24: the members view of an object with a member that cannot be read
\* between members that can, with rows of all four categories.
C24_Witness ==
    /\ detail # NothingShown
    /\ \E k \in DOMAIN Dir(detail) :
          /\ Dir(detail)[k].v = Raises
          /\ k < Len(Dir(detail))
          /\ RowsOf(PopulateMembers(detail), Dir(detail)[k + 1].key.s) # {}
    /\ \A c \in {"property", "reservedProperty", "reservedCallable"} :
          \E j \in DOMAIN PopulateMembers(detail) : Category(PopulateMembers(detail)[j]) = c

----------------------------------------------------------------------------
(* The settings editor at work: the handlers of SettingsWindow that change *)
(* self.settings and settings.json.                                        *)

\* The text with the indent of every line doubled: json.dumps(v, indent=4)
\* from json.dumps(v, indent=2).  A line feed of the text is one between
\* two items; the ones of a string are written \n.
\* text[i] is one of the spaces a line begins with.
RECURSIVE Leads(_, _)
Leads(text, i) == i > 1 /\ text[i] = 32 /\ (text[i - 1] = 10 \/ Leads(text, i - 1))

\* text[lo..hi] with the spaces that begin a line doubled.
RECURSIVE Widen(_, _, _)
WidenHalves(text, lo, mid, hi) == Widen(text, lo, mid) \o Widen(text, mid + 1, hi)

Widen(text, lo, hi) ==
    IF lo > hi THEN <<>>
    ELSE IF lo = hi THEN (IF Leads(text, lo) THEN <<32, 32>> ELSE <<text[lo]>>)
    ELSE WidenHalves(text, lo, (lo + hi) \div 2, hi)

\* json.dump(self.settings, f, indent=4)
SettingsText(t) == Widen(t.s, 1, Len(t.s))

\* update_setting(category, key, value): self.settings after it.
Updated(doc, category, key, value) ==
    IF Has(doc, category) /\ Has(DictGet(doc, category), key)
    THEN DictV(DictSet(doc.c, category,
                       DictV(DictSet(DictGet(doc, category).c, key, value))))
    ELSE doc

\* The settings the widgets of the model change, and the value typed.
EditedSettings ==
    { <<StrV(<<101, 100, 105, 116, 111, 114>>), StrV(<<101, 100, 105, 116, 111, 114, 95, 99, 111, 109, 109, 97, 110, 100>>), StrV(<<118, 105, 32, 123, 102, 105, 108, 101, 110, 97, 109, 101, 125>>)>>,
      <<StrV(<<97, 100, 118, 97, 110, 99, 101, 100>>), StrV(<<101, 100, 105, 116, 111, 114, 95, 99, 111, 109, 109, 97, 110, 100>>), StrV(<<118, 105, 32, 123, 102, 105, 108, 101, 110, 97, 109, 101, 125>>)>>,
      <<StrV(<<98, 114, 111, 119, 115, 101, 114>>), StrV(<<115, 104, 111, 119, 95, 112, 114, 105, 118, 97, 116, 101>>), BoolV(TRUE)>> }

UpdateSetting ==
    /\ document # NoneV
    /\ \E e \in EditedSettings :
          /\ document' = Updated(document, e[1], e[2], e[3])
          /\ last' = [Blank EXCEPT !.op = "update_setting"]
    /\ UNCHANGED <<current_object, current_object_path, loaded_objects, fs, settings,
                   tree, detail, walk, settings_file, editor_command>>

\* save_settings: settings.json after open(settings_file, "w") and
\* json.dump, and the box shown.
Saved(t, io, file) ==
    [file |-> CASE io = "ok" -> SettingsText(t)
                [] io = "write_fails" -> <<>>
                [] OTHER -> file,
     dialog |-> IF io = "ok" THEN "Settings Saved" ELSE "Save Error"]

SaveDone(r) ==
    /\ settings_file' = r.file
    /\ last' = [Blank EXCEPT !.op = "save_settings", !.dialog = r.dialog]
    /\ UNCHANGED <<current_object, current_object_path, loaded_objects, fs, settings,
                   tree, detail, walk, document, editor_command>>

SaveSettings ==
    /\ document # NoneV
    /\ \E io \in IoOutcomes : SaveDone(Saved(JsonDumps(document), io, settings_file))

\* reset_defaults: the answer to "Reset all settings to defaults?"; with
\* yes settings.json is removed and load_settings gives the defaults.
ResetDefaults ==
    /\ document # NoneV
    /\ \E result \in BOOLEAN :
          /\ document' = IF result THEN WindowLoadSettings(NoSettingsFile).doc ELSE document
          /\ settings_file' = IF result THEN NoSettingsFile ELSE settings_file
          /\ last' = [Blank EXCEPT !.op = "reset_defaults",
                                   !.dialog = IF result THEN "Reset Complete" ELSE ""]
    /\ UNCHANGED <<current_object, current_object_path, loaded_objects, fs, settings,
                   tree, detail, walk, editor_command>>

\* The files the user imports: an empty document, a document with the
\* command of the editor under advanced, a list, and a text that is no JSON.
ImportFiles ==
    { <<123, 125>>, <<123, 34, 97, 100, 118, 97, 110, 99, 101, 100, 34, 58, 32, 123, 34, 101, 100, 105, 116, 111, 114, 95, 99, 111, 109, 109, 97, 110, 100, 34, 58, 32, 34, 101, 100, 32, 123, 102, 105, 108, 101, 110, 97, 109, 101, 125, 34, 125, 125>>, <<91, 49, 93>>, <<123, 34, 97>> }

\* import_settings after json.load gave j: the box, and self.settings.
Imported(j, result, doc) ==
    IF ~j.ok THEN [doc |-> doc, dialog |-> "Parse Error"]
    ELSE IF j.v.t # "dict" THEN [doc |-> doc, dialog |-> "Invalid Format"]
    ELSE IF result THEN [doc |-> j.v, dialog |-> "Import Successful"]
    ELSE [doc |-> doc, dialog |-> ""]

ImportDone(r) ==
    /\ document' = r.doc
    /\ last' = [Blank EXCEPT !.op = "import_settings", !.dialog = r.dialog]
    /\ UNCHANGED <<current_object, current_object_path, loaded_objects, fs, settings,
                   tree, detail, walk, settings_file, editor_command>>

\* import_settings with the file chosen and the answer to "Continue?".
ImportSettings ==
    /\ document # NoneV
    /\ \E file \in ImportFiles, result \in BOOLEAN :
          ImportDone(Imported(JsonLoads(file), result, document))

\* settings.json when the editor opens: none, or a document with a size of
\* the font.
EditFiles == { NoSettingsFile, <<123, 34, 100, 105, 115, 112, 108, 97, 121, 34, 58, 32, 123, 34, 102, 111, 110, 116, 95, 115, 105, 122, 101, 34, 58, 32, 49, 50, 125, 125>> }

EditInit ==
    /\ current_object = NoneV
    /\ current_object_path = <<>>
    /\ loaded_objects = <<>>
    /\ fs = [f \in Files |-> NoFile]
    /\ last = Blank
    /\ settings = Given
    /\ tree = Graph(settings, loaded_objects)
    /\ detail = NothingShown
    /\ walk = NoWalk
    /\ settings_file \in EditFiles
    /\ document = NoneV
    /\ editor_command = EditorCommandOf(Settings(settings)).v

EditNext ==
    \/ OpenSettingsWindow
    \/ UpdateSetting
    \/ SaveSettings
    \/ ResetDefaults
    \/ ImportSettings

EditSpec == EditInit /\ [][EditNext]_vars

\* The document has every category and every key of the defaults.
HasDefaults(doc) ==
    /\ doc.t = "dict"
    /\ \A c \in Keys(DefaultSettings) :
          /\ Has(doc, c)
          /\ DictGet(doc, c).t = "dict"
          /\ \A k \in Keys(DictGet(DefaultSettings, c)) : Has(DictGet(doc, c), k)

\* C25: the settings of the settings editor have every category and every
\* key of the defaults, whatever the handlers that ran.
C25_DefaultKeysKept == document # NoneV => HasDefaults(document)

\* The part of C25 that holds: the settings have every key of the defaults
\* as long as nothing was imported.
DefaultKeysKeptWithoutImport ==
    [][(document # NoneV => HasDefaults(document))
         /\ last'.op # "import_settings" /\ document' # NoneV
       => HasDefaults(document')]_vars

----------------------------------------------------------------------------
(* The selection of the browser: current_object and current_object_path.   *)

\* C26: after on_object_selected, whether its eval succeeded or raised,
\* current_object_path is the path that evaluates to current_object.
C26_SelectionConsistent ==
    last.op = "select" =>
        Eval(<<>>, SelfV(Graph(settings, loaded_objects)), current_object_path)
            = EvalOk(current_object)

\* The part of C26 that holds: after an on_object_selected whose eval
\* succeeded, current_object_path evaluates to current_object.
ResolvedSelectionConsistent ==
    (last.op = "select" /\ ~SelectFailed(last)) =>
        Eval(<<>>, SelfV(Graph(settings, loaded_objects)), current_object_path)
            = EvalOk(current_object)

----------------------------------------------------------------------------
(* The saves and the portable load of leaf values: a browser whose store   *)
(* holds byte strings, strings, numbers and empty containers, as loads of  *)
(* pickle files leave them there.                                          *)

FloatV(text) == V("float", 0, text, <<>>)

\* The loaded objects of the model, by name.
LeafEntries ==
    << <<"zero", IntV(0)>>, <<"five", IntV(5)>>,
       <<"no", BoolV(FALSE)>>, <<"yes", BoolV(TRUE)>>,
       <<"nought", FloatV(<<48, 46, 48>>)>>, <<"half", FloatV(<<49, 46, 53>>)>>,
       <<"blank", StrV(<<>>)>>, <<"word", StrV(<<97, 98>>)>>, <<"digits", StrV(<<49, 50>>)>>,
       <<"none", BytesV(<<>>)>>, <<"raw", BytesV(<<255, 254>>)>>, <<"ascii", BytesV(<<97, 98>>)>>,
       <<"mapping", DictV(<<>>)>>, <<"list", ListV(<<>>)>> >>

LeafStore ==
    [n \in {LeafEntries[i][1] : i \in DOMAIN LeafEntries} |->
        LeafEntries[CHOOSE i \in DOMAIN LeafEntries : LeafEntries[i][1] = n][2]]

LeafInit ==
    /\ current_object = NoneV
    /\ current_object_path = <<>>
    /\ loaded_objects = LeafStore
    /\ fs = [f \in Files |-> NoFile]
    /\ last = Blank
    /\ settings = Given
    /\ tree = Graph(settings, loaded_objects)
    /\ detail = NothingShown
    /\ settings_file = NoSettingsFile
    /\ walk = NoWalk
    /\ document = NoneV
    /\ editor_command = EditorCommandOf(Settings(settings)).v

\* The saves to the file of the model or with the dialog cancelled, and
\* the portable load of that file under the name a.
LeafNext ==
    \/ SelectLoaded
    \/ SaveObjectPython
    \/ SaveObjectBinary
    \/ LoadObjectBinaryAs(Files, {"ok"}, Names)

LeafSpec == LeafInit /\ [][LeafNext]_vars

\* The last handler was a save.
SaveRan == last.op \in {"save_python", "save_binary"}

\* C27: a save of a selected value goes on to the conversion and the
\* file, falsy values included; it ends with 'No Object Selected' only when
\* nothing was selected.
C27_SavesEverySelectedValue ==
    SaveRan => (last.dialog = "No Object Selected" <=> current_object_path = <<>>)

\* The part of C27 that holds: a save ends with 'No Object Selected' for the
\* values whose truth value is false and for no other, and for them writes
\* nothing.
SavesTruthyValues ==
    SaveRan => (last.dialog = "No Object Selected" <=> ~Truthy(current_object))

\* byte strings, strings and numbers, the booleans among them
LeafTypes == {"bytes", "str", "int", "bool", "float"}

\* The step is a load_object_binary that stored the file a
\* save_object_binary of a leaf value wrote just before it.
LoadsWhatWasSaved ==
    /\ last.op = "save_binary"
    /\ last.dialog = "Binary Saved"
    /\ last.obj.t \in LeafTypes
    /\ last'.op = "load_binary"
    /\ last'.file = last.file
    /\ last'.dialog = "Binary Loaded"

\* C28: load_object_binary of the file save_object_binary wrote for a byte
\* string, a string or a number gives the value saved, with its type.
C28_LeafRoundTrip ==
    [][LoadsWhatWasSaved => loaded_objects'[last'.name] = last.obj]_vars

\* The part of C28 that holds: the round trip gives the value saved unless
\* its bytes read as something else: a string that is a JSON text, a byte
\* string that is a JSON text or UTF-8 text, the text of True.
RoundTripOfPlainLeaves ==
    [][(LoadsWhatWasSaved
          /\ last.obj \in {IntV(5), FloatV(<<49, 46, 53>>), StrV(<<97, 98>>), BytesV(<<255, 254>>)})
        => loaded_objects'[last'.name] = last.obj]_vars

----------------------------------------------------------------------------
(* The name prompt of the loads.                                           *)

\* The last handler was a load whose name prompt was cancelled or left
\* empty, after the file was decoded.
LoadCancelled(rep) ==
    /\ rep.op \in {"load_python", "load_binary"}
    /\ rep.dialog = "Load Cancelled"

\* C29: a load whose name prompt is cancelled or answered with the empty
\* name leaves loaded_objects as it was, and the empty text is never a name
\* of the store.
C29_CancelledLoadStoresNothing ==
    /\ []("" \notin DOMAIN loaded_objects)
    /\ [][LoadCancelled(last') => loaded_objects' = loaded_objects]_vars

\* C29: both loads were cancelled at the name prompt, after the file was
\* decoded, with an object in the store.
C29_Witness ==
    /\ LoadCancelled(last)
    /\ last.op = "load_binary"
    /\ last.interpretation # ""
    /\ DOMAIN loaded_objects = {"a"}

----------------------------------------------------------------------------
(* The command of the editor: from the settings editor to                  *)
(* edit_current_object of the browser.                                     *)

\* __file__, the source file edit_current_object falls back to for a value
\* whose type is built in.
SourceFile == <<108, 97, 121, 111, 117, 116, 95, 101, 100, 105, 116, 111, 114, 46, 112, 121>>

FormatErr == [ok |-> FALSE, s |-> <<>>]

\* template.format(filename=value) from template[i] on, for a template
\* whose fields are {filename}: {{ and }} stand for a brace, another brace
\* raises.
RECURSIVE Format(_, _, _)
FormatRest(head, rest) == IF rest.ok THEN [ok |-> TRUE, s |-> head \o rest.s] ELSE FormatErr

Format(template, i, value) ==
    IF i > Len(template) THEN [ok |-> TRUE, s |-> <<>>]
    ELSE IF StartsWith(template, i, <<123, 102, 105, 108, 101, 110, 97, 109, 101, 125>>)
        THEN FormatRest(value, Format(template, i + 10, value))
    ELSE IF StartsWith(template, i, <<123, 123>>) \/ StartsWith(template, i, <<125, 125>>)
        THEN FormatRest(<<template[i]>>, Format(template, i + 2, value))
    ELSE IF template[i] \in {123, 125} THEN FormatErr
    ELSE FormatRest(<<template[i]>>, Format(template, i + 1, value))

\* What edit_current_object ends with: the box, and the command it ran.
Ran(f) ==
    IF f.ok THEN [dialog |-> "", cmd |-> StrV(f.s)] ELSE [dialog |-> "Error", cmd |-> NoneV]

\* edit_current_object for the selected value and self.editor_command: a
\* command that is no string has no format, and the call raises.
RunEditor(obj, command) ==
    IF ~Truthy(obj) THEN [dialog |-> "No Selection", cmd |-> NoneV]
    ELSE IF command.t # "str" THEN Ran(FormatErr)
    ELSE Ran(Format(command.s, 1, SourceFile))

Edited(r) ==
    /\ last' = [Blank EXCEPT !.op = "edit", !.dialog = r.dialog, !.obj = r.cmd]
    /\ UNCHANGED <<current_object, current_object_path, loaded_objects, fs, settings,
                   tree, detail, aside>>

EditCurrentObject == Edited(RunEditor(current_object, editor_command))

\* settings.json when the browser starts: none, or a document with the
\* command of the editor under advanced.
CommandFiles == { NoSettingsFile, <<123, 34, 97, 100, 118, 97, 110, 99, 101, 100, 34, 58, 32, 123, 34, 101, 100, 105, 116, 111, 114, 95, 99, 111, 109, 109, 97, 110, 100, 34, 58, 32, 34, 101, 100, 32, 123, 102, 105, 108, 101, 110, 97, 109, 101, 125, 34, 125, 125>> }

\* main(): ObjectBrowser() with the settings load_settings returns, and an
\* object loaded since.
CommandInit ==
    /\ current_object = NoneV
    /\ current_object_path = <<>>
    /\ loaded_objects = [n \in Names |-> IntV(5)]
    /\ fs = [f \in Files |-> NoFile]
    /\ last = Blank
    /\ settings_file \in CommandFiles
    /\ settings = Built(LoadSettings(settings_file))
    /\ tree = Graph(settings, loaded_objects)
    /\ detail = NothingShown
    /\ walk = NoWalk
    /\ document = NoneV
    /\ editor_command = EditorCommandOf(Settings(settings)).v

CommandNext ==
    \/ OpenSettingsWindow
    \/ UpdateSetting
    \/ SaveSettings
    \/ ReloadSettings
    \/ SelectLoaded
    \/ EditCurrentObject

CommandSpec == CommandInit /\ [][CommandNext]_vars

\* settings.json is what save_settings wrote for the settings of the
\* settings editor.
IsSaved(t) == t.ok /\ settings_file = SettingsText(t)

\* The browser has reloaded its settings from settings.json as it is.
IsReloaded(s) == settings = Built(s) /\ EditorCommandOf(s).ok

\* The command the settings editor shows and writes: editor.editor_command.
EditorsCommand(doc) == DictGet(DictGet(doc, StrV(<<101, 100, 105, 116, 111, 114>>)), StrV(<<101, 100, 105, 116, 111, 114, 95, 99, 111, 109, 109, 97, 110, 100>>))

\* The command of the settings editor was changed, saved, and reloaded by
\* the browser, which then ran its editor on a selected value.
Propagated ==
    /\ last.op = "edit"
    /\ Truthy(current_object)
    /\ document # NoneV
    /\ EditorsCommand(document) = StrV(<<118, 105, 32, 123, 102, 105, 108, 101, 110, 97, 109, 101, 125>>)
    /\ IsSaved(JsonDumps(document))
    /\ IsReloaded(LoadSettings(settings_file))

\* C30: after the command of the editor was changed with update_setting,
\* saved with save_settings and reloaded with reload_settings,
\* edit_current_object runs that command on the source file.
C30_EditorCommandPropagates ==
    Propagated => last.obj = StrV(<<118, 105, 32, 108, 97, 121, 111, 117, 116, 95, 101, 100, 105, 116, 111, 114, 46, 112, 121>>)

\* The part of C30 that holds: edit_current_object runs the command that
\* the reloaded settings hold under advanced, or notepad when they hold
\* none there.
AdvancedCommandRuns ==
    Propagated =>
        last.obj = StrV(Format(Get(Get(document, StrV(<<97, 100, 118, 97, 110, 99, 101, 100>>), DictV(<<>>)),
                                   StrV(<<101, 100, 105, 116, 111, 114, 95, 99, 111, 109, 109, 97, 110, 100>>), NotepadCommand).s,
                               1, SourceFile).s)

====
